---- MODULE Spec2Model ----
(***************************************************************************)
(* Verification model of the portrait-generation backend                   *)
(* (src/backend/server.js, the object-storage variant, and                 *)
(* src/unnamed/part_000, the inline-storage variant) and of its front end  *)
(* (src/frontend/src/App.js).                                              *)
(*                                                                         *)
(* Specifications:                                                         *)
(*   SpecClamp  - clampNumberOfImages over JavaScript input values         *)
(*   SpecGen    - the two generation clients against a mocked upstream     *)
(*   SpecScan   - the two clients reading any reply body                   *)
(*   SpecStore  - the persistence adapters and the gallery on the store    *)
(*   Spec       - one POST /generate, /generate-auto or /selection         *)
(*                request, end to end                                      *)
(*   SpecUi     - the handlers of the front-end component App              *)
(*   SpecUiLive - SpecUi with fair awaits                                  *)
(*   SpecAcct   - concurrent signup, login, account and image deletion     *)
(***************************************************************************)
EXTENDS Integers, Sequences, FiniteSets, TLC

(***************************************************************************)
(* Bounds of the model (not program constants).                            *)
(***************************************************************************)
\* numeric inputs range over -MaxAbs .. MaxAbs, in steps of one tenth
MaxAbs == 7
\* documents the images collection may hold in SpecStore; a list handed
\* to a persistence adapter has at most as many items as there is room
MaxDocs == 2
\* Date.now() ranges over 1 .. MaxNow
MaxNow == 2
\* an upstream reply carries at most MaxCands candidates
MaxCands == 2
\* at most MaxTimers progress intervals of the front end run at once
MaxTimers == 2

(***************************************************************************)
(* Program constants.                                                      *)
(***************************************************************************)
MAX_IMAGES == 4

Min(a, b) == IF a <= b THEN a ELSE b
Max(a, b) == IF a >= b THEN a ELSE b

(***************************************************************************)
(* JavaScript values that can reach clampNumberOfImages from a JSON body   *)
(* (or be absent).  Numbers are carried in tenths: n = 26 is 2.6.          *)
(***************************************************************************)
Tenths == (0 - 10 * MaxAbs) .. (10 * MaxAbs)

JsKinds == {"number", "numstring", "text", "emptystring", "null", "undefined",
            "true", "false", "infinity", "neginfinity", "object"}

JsValues ==
    [t : {"number", "numstring"}, n : Tenths]
        \cup [t : JsKinds \ {"number", "numstring"}, n : {0}]

\* Number(value): fin is Number.isFinite of the result, n its value in tenths
ToNumber(v) ==
    CASE v.t \in {"number", "numstring"}          -> [fin |-> TRUE, n |-> v.n]
      [] v.t \in {"emptystring", "null", "false"} -> [fin |-> TRUE, n |-> 0]
      [] v.t = "true"                             -> [fin |-> TRUE, n |-> 10]
      [] OTHER                                    -> [fin |-> FALSE, n |-> 0]

\* Math.round on tenths: floor(x + 0.5)
MathRound(n) == (n + 5) \div 10

\* a mutant of clampNumberOfImages: the lower bound is forgotten
ClampNoLowerBound(value) ==
    LET numeric == ToNumber(value)
    IN  IF ~numeric.fin THEN 1 ELSE Min(MathRound(numeric.n), MAX_IMAGES)

clampNumberOfImages(value) ==
    LET numeric == ToNumber(value)
    IN  IF ~numeric.fin THEN 1
        ELSE Min(Max(MathRound(numeric.n), 1), MAX_IMAGES)

(***************************************************************************)
(* The upstream generation endpoint, as a mock.  A reply is what one       *)
(* generateContent call gives back: the fetch (or response.json()) may     *)
(* throw, the body may carry a top-level error, or it carries candidates,  *)
(* each with a finishReason and content parts.                             *)
(*   part: k = "inline" (inline_data with data), "textData" (a text part   *)
(*         starting with "data:image/"), "text" (any other text part);     *)
(*         form = "std" when the resulting data URL has the shape          *)
(*         data:image/<word>;base64,<payload>, "odd" otherwise (a mime     *)
(*         type such as image/svg+xml, a trailing newline); d = payload.   *)
(***************************************************************************)
Payloads == {"A", "B", "C", "D"}

(***************************************************************************)
(* JavaScript strings, as far as the program looks at them: the prefix it  *)
(* tests with startsWith, the length, and what tells two strings apart     *)
(* (the payload d and shape of a data URL, the owner and timestamp in the  *)
(* path of a storage URL).  Null stands for null and undefined.            *)
(***************************************************************************)
Str(pfx, len) ==
    [ty |-> "string", pfx |-> pfx, len |-> len, form |-> "none", d |-> "none",
     owner |-> "none", ts |-> 0]

Null == [Str("", 0) EXCEPT !.ty = "null"]

\* `data:${mime};base64,${data}`, or a text part that is a data URL
DataUrl(form, d, len) == [Str("data:image/", len) EXCEPT !.form = form, !.d = d]

StartsWith(s, pfx) == s.ty = "string" /\ s.pfx = pfx

\* length of the data URL of an ordinary generated image
InlineLen == 1000

NoImg == Null

Part(k, form, d) == [k |-> k, form |-> form, d |-> d, len |-> InlineLen]

Cand(fr, parts) == [finishReason |-> fr, parts |-> parts]

\* the replies a mock descriptor m = [k, d] stands for
ReplyOf(m) ==
    CASE m.k = "image"    ->
            [throw |-> FALSE, error |-> FALSE,
             candidates |-> <<Cand("STOP", <<Part("inline", "std", m.d)>>)>>]
      [] m.k = "textimage" ->
            [throw |-> FALSE, error |-> FALSE,
             candidates |-> <<Cand("STOP", <<Part("text", "none", "none"),
                                             Part("textData", "std", m.d)>>)>>]
      [] m.k = "oddimage" ->
            [throw |-> FALSE, error |-> FALSE,
             candidates |-> <<Cand("STOP", <<Part("inline", "odd", m.d)>>)>>]
      [] m.k = "safety"   ->
            [throw |-> FALSE, error |-> FALSE,
             candidates |-> <<Cand("SAFETY", <<Part("inline", "std", m.d)>>)>>]
      [] m.k = "empty"    ->
            [throw |-> FALSE, error |-> FALSE, candidates |-> <<>>]
      [] m.k = "apierror" ->
            [throw |-> FALSE, error |-> TRUE, candidates |-> <<>>]
      [] m.k = "reply"    ->
            [throw |-> FALSE, error |-> FALSE, candidates |-> m.cands]
      [] OTHER            ->
            [throw |-> TRUE, error |-> FALSE, candidates |-> <<>>]

\* an Error object: its kind (message) and the attempt that created it
Err(kind, i, a) == [kind |-> kind, i |-> i, a |-> a]
NoErr == Err("none", 0, 0)

\* the outcome of one attempt
Success(img) == [ok |-> TRUE, img |-> img, kind |-> "none"]
Failure(kind) == [ok |-> FALSE, img |-> NoImg, kind |-> kind]

\* a mutant of ScanParts: the last matching part wins
RECURSIVE ScanPartsLast(_, _)
ScanPartsLast(parts, k) ==
    IF k > Len(parts) THEN NoImg
    ELSE LET later == ScanPartsLast(parts, k + 1)
         IN  IF later # NoImg THEN later
             ELSE IF parts[k].k \in {"inline", "textData"}
             THEN DataUrl(parts[k].form, parts[k].d, parts[k].len)
             ELSE NoImg

\* the inner loop over the parts of one candidate: the first part that is
\* inline image data or a text part holding a data URL
RECURSIVE ScanParts(_, _)
ScanParts(parts, k) ==
    IF k > Len(parts) THEN NoImg
    ELSE IF parts[k].k \in {"inline", "textData"}
         THEN DataUrl(parts[k].form, parts[k].d, parts[k].len)
         ELSE ScanParts(parts, k + 1)

\* the loop over the candidates, simple variant: no finishReason check
RECURSIVE ScanCandidatesSimple(_, _)
ScanCandidatesSimple(cands, c) ==
    IF c > Len(cands) THEN Failure("noimage")
    ELSE LET imageUrl == ScanParts(cands[c].parts, 1)
         IN  IF imageUrl # NoImg THEN Success(imageUrl)
             ELSE ScanCandidatesSimple(cands, c + 1)

\* a mutant of BlockingReasons: only the safety filter blocks
BlockingReasonsSafetyOnly == {"SAFETY"}

BlockingReasons == {"SAFETY", "RECITATION", "IMAGE_OTHER"}

\* the loop over the candidates, hardened variant: a blocking finishReason
\* throws before the candidate's parts are read
RECURSIVE ScanCandidatesHardened(_, _)
ScanCandidatesHardened(cands, c) ==
    IF c > Len(cands) THEN Failure("noimage")
    ELSE IF cands[c].finishReason \in BlockingReasons THEN Failure("blocked")
    ELSE LET imageUrl == ScanParts(cands[c].parts, 1)
         IN  IF imageUrl # NoImg THEN Success(imageUrl)
             ELSE ScanCandidatesHardened(cands, c + 1)

\* one attempt of generateSingleImage, simple variant, on reply r
AttemptSimple(r) ==
    IF r.throw THEN Failure("network")
    ELSE IF r.error THEN Failure("apierror")
    ELSE ScanCandidatesSimple(r.candidates, 1)

\* one attempt of generateSingleImage, hardened variant, on reply r
AttemptHardened(r) ==
    IF r.throw THEN Failure("network")
    ELSE IF r.error THEN Failure("apierror")
    ELSE ScanCandidatesHardened(r.candidates, 1)

\* a mutant of RetryLeft: no retry after a failed attempt
NoRetryLeft(attempt) == FALSE

\* the for loop of generateSingleImage: attempt <= 2
RetryLeft(attempt) == attempt + 1 <= 2

\* log entries: upstream calls and pacing sleeps, in the order they happen
CallEvent(t, i, a) == [e |-> "call", t |-> t, i |-> i, a |-> a, ms |-> 0]
SleepEvent(ms) == [e |-> "sleep", t |-> 0, i |-> 0, a |-> 0, ms |-> ms]
\* the fetch of the chat-completion endpoint by /generate-auto
ChatEvent == [e |-> "chat", t |-> 0, i |-> 0, a |-> 0, ms |-> 0]

Pending == [status |-> "pending", images |-> <<>>, error |-> NoErr]
Returned(imgs) == [status |-> "returned", images |-> imgs, error |-> NoErr]
Raised(err) == [status |-> "raised", images |-> <<>>, error |-> err]

(***************************************************************************)
(* State.                                                                  *)
(***************************************************************************)
VARIABLES
    cval,       \* the value handed to clampNumberOfImages
    cres,       \* its results: <<>> before the call, <<r>> after it
    mock,       \* the mocked upstream: call <<t, i, a>> -> reply descriptor
    photosOk,   \* whether every reference photo is a base64 string
    log,        \* upstream calls and sleeps so far
    seq,        \* generateImagesWithGemini (hardened, sequential) in progress
    par,        \* the parallel clients: processes and Promise.all groups
    db,         \* the images collection of the document store
    nextId,     \* the next document id the store hands out
    bucket,     \* the objects in the storage bucket
    op,         \* the last persistence call or gallery request, with its result
    h,          \* the request handler in progress
    res,        \* the HTTP response it has sent
    users,      \* the users collection: email -> document
    selections, \* the selections collection
    posts,      \* the posts_analysis collection
    rq,         \* the account requests in progress, each with its response
    ui          \* the state of the front-end component App

clampVars == <<cval, cres>>
genVars == <<mock, photosOk, log, seq, par>>

storeVars == <<db, nextId, bucket, op>>
handlerVars == <<h, res>>
acctVars == <<users, selections, posts, rq>>
uiVars == <<ui>>

\* what the generation clients never touch
otherVars ==
    <<cval, cres, db, nextId, bucket, op, h, res, users, selections, posts, rq, ui>>

vars ==
    <<cval, cres, mock, photosOk, log, seq, par, db, nextId, bucket, op, h, res,
      users, selections, posts, rq, ui>>

(***************************************************************************)
(* generateImagesWithGemini, the hardened sequential client                *)
(* (server.js 176-308).                                                    *)
(***************************************************************************)
Num(k) == [t |-> "number", n |-> 10 * k]

SeqIdle ==
    [pc |-> "off", numberOfImages |-> Num(0), safeCount |-> 0, i |-> 0,
     attempt |-> 0, images |-> <<>>, lastError |-> NoErr, single |-> <<>>,
     res |-> Pending]

\* the settled value of one generateSingleImage invocation
Resolved(img) == [ok |-> TRUE, img |-> img, err |-> NoErr]
Rejected(err) == [ok |-> FALSE, img |-> NoImg, err |-> err]

\* the state on entry to the for loop over the images
SeqEntered(numberOfImages) ==
    [SeqIdle EXCEPT !.pc = "attempt",
                    !.numberOfImages = numberOfImages,
                    !.safeCount = clampNumberOfImages(numberOfImages),
                    !.i = 1, !.attempt = 1]

\* a mutant of SwallowFailure: a failed image always aborts the call
NeverSwallow(images) == FALSE

\* the catch of the image loop: the error is rethrown only when no image
\* has been generated so far
SwallowFailure(images) == Len(images) # 0

\* the call is about to be made with argument numberOfImages
SeqReady(numberOfImages) ==
    [SeqIdle EXCEPT !.pc = "ready", !.numberOfImages = numberOfImages]

SeqStart ==
    /\ seq.pc = "ready"
    /\ seq' = SeqEntered(seq.numberOfImages)
    /\ UNCHANGED <<mock, photosOk, log, par>>
    /\ UNCHANGED otherVars

\* one pass through the body of the retry loop: compress the photos, call
\* the endpoint, read the reply
SeqAttempt ==
    /\ seq.pc = "attempt"
    /\ LET i == seq.i
           a == seq.attempt
           out == IF ~photosOk THEN Failure("typeerror")
                  ELSE AttemptHardened(ReplyOf(mock[<<1, i, a>>]))
           err == Err(out.kind, i, a)
           images == Append(seq.images, out.img)
       IN  /\ log' = IF photosOk THEN Append(log, CallEvent(1, i, a)) ELSE log
           /\ seq' =
                IF out.ok
                THEN IF i < seq.safeCount
                     THEN [seq EXCEPT !.pc = "sleep3", !.images = images,
                                      !.single = Append(@, Resolved(out.img))]
                     ELSE [seq EXCEPT !.pc = "done", !.images = images,
                                      !.single = Append(@, Resolved(out.img)),
                                      !.res = Returned(images)]
                ELSE IF RetryLeft(a)
                THEN [seq EXCEPT !.pc = "sleep5", !.attempt = a + 1,
                                 !.lastError = err]
                ELSE IF ~SwallowFailure(seq.images)
                THEN [seq EXCEPT !.pc = "done", !.lastError = err,
                                 !.single = Append(@, Rejected(err)),
                                 !.res = Raised(err)]
                ELSE IF i < seq.safeCount
                THEN [seq EXCEPT !.pc = "attempt", !.i = i + 1, !.attempt = 1,
                                 !.lastError = NoErr,
                                 !.single = Append(@, Rejected(err))]
                ELSE [seq EXCEPT !.pc = "done", !.lastError = err,
                                 !.single = Append(@, Rejected(err)),
                                 !.res = IF Len(seq.images) = 0
                                         THEN Raised(Err("nothing", 0, 0))
                                         ELSE Returned(seq.images)]
    /\ UNCHANGED <<mock, photosOk, par>>
    /\ UNCHANGED otherVars

\* await sleep(5000) before the second attempt
SeqSleepRetry ==
    /\ seq.pc = "sleep5"
    /\ log' = Append(log, SleepEvent(5000))
    /\ seq' = [seq EXCEPT !.pc = "attempt"]
    /\ UNCHANGED <<mock, photosOk, par>>
    /\ UNCHANGED otherVars

\* await sleep(3000) after a generated image that is not the last
SeqSleepNext ==
    /\ seq.pc = "sleep3"
    /\ log' = Append(log, SleepEvent(3000))
    /\ seq' = [seq EXCEPT !.pc = "attempt", !.i = @ + 1, !.attempt = 1,
                          !.lastError = NoErr]
    /\ UNCHANGED <<mock, photosOk, par>>
    /\ UNCHANGED otherVars

(***************************************************************************)
(* generateImagesWithGeminiSimple (server.js 94-167) and part_000's        *)
(* generateImagesWithGemini (41-113): safeCount generateSingleImage calls  *)
(* started together and joined with Promise.all.  A group t is one call of *)
(* the client; its processes keep running after the group has settled.     *)
(***************************************************************************)
ParIdle == [pc |-> "off", numberOfImages |-> Num(0), procs |-> <<>>, grp |-> <<>>]

ParReady(numberOfImages) ==
    [ParIdle EXCEPT !.pc = "ready", !.numberOfImages = numberOfImages]

Running(a) == [st |-> "running", attempt |-> a, lastError |-> NoErr, img |-> NoImg]

\* Array.from({length: safeCount}, () => generateSingleImage()): every
\* invocation runs up to its first fetch
ParLaunch(p, t, numberOfImages) ==
    LET safeCount == clampNumberOfImages(numberOfImages)
    IN  [p EXCEPT !.pc = "running",
                  !.procs = [k \in {<<t, i>> : i \in 1 .. safeCount} |-> Running(1)] @@ @,
                  !.grp = (t :> [safeCount |-> safeCount, res |-> Pending]) @@ @]

ParLaunchLog(lg, t, numberOfImages) ==
    lg \o [i \in 1 .. clampNumberOfImages(numberOfImages) |-> CallEvent(t, i, 1)]

\* Promise.all over group t once process <<t, i>> has settled as pr
PromiseAll(p, t, i, pr) ==
    LET g == p.grp[t]
        procs == [p.procs EXCEPT ![<<t, i>>] = pr]
    IN  IF g.res.status # "pending" THEN g.res
        ELSE IF pr.st = "rejected" THEN Raised(pr.lastError)
        ELSE IF \A j \in 1 .. g.safeCount : procs[<<t, j>>].st = "resolved"
        THEN Returned([j \in 1 .. g.safeCount |-> procs[<<t, j>>].img])
        ELSE Pending

ParStart ==
    /\ par.pc = "ready"
    /\ par' = ParLaunch(par, 1, par.numberOfImages)
    /\ log' = ParLaunchLog(log, 1, par.numberOfImages)
    /\ UNCHANGED <<mock, photosOk, seq>>
    /\ UNCHANGED otherVars

\* the reply to the pending call of process <<t, i>> arrives
ParReply(t, i) ==
    /\ <<t, i>> \in DOMAIN par.procs
    /\ par.procs[<<t, i>>].st = "running"
    /\ LET a == par.procs[<<t, i>>].attempt
           out == AttemptSimple(ReplyOf(mock[<<t, i, a>>]))
           err == Err(out.kind, i, a)
           pr == IF out.ok
                 THEN [st |-> "resolved", attempt |-> a, lastError |-> NoErr,
                       img |-> out.img]
                 ELSE IF RetryLeft(a)
                 THEN [st |-> "running", attempt |-> a + 1, lastError |-> err,
                       img |-> NoImg]
                 ELSE [st |-> "rejected", attempt |-> a, lastError |-> err,
                       img |-> NoImg]
       IN  /\ par' = [par EXCEPT !.procs[<<t, i>>] = pr,
                                 !.grp[t].res = PromiseAll(par, t, i, pr)]
           /\ log' = IF pr.st = "running"
                     THEN Append(log, CallEvent(t, i, a + 1))
                     ELSE log
    /\ UNCHANGED <<mock, photosOk, seq>>
    /\ UNCHANGED otherVars

ParReplyAny == \E t \in 1 .. 2 : \E i \in 1 .. MAX_IMAGES : ParReply(t, i)

(***************************************************************************)
(* The document store (collection "images") and the persistence adapter.   *)
(***************************************************************************)
Emails == {"a", "b"}

\* email || "anonymous"; "" stands for a missing email
OrAnonymous(email) == IF email = "" THEN "anonymous" ELSE email

\* a document of the images collection; by names the code that wrote it
Doc(id, email, url, originalLength, by) ==
    [id |-> id, email |-> email, url |-> url, originalLength |-> originalLength,
     by |-> by]

NoOp ==
    [name |-> "none", email |-> "", imageUrls |-> <<>>, adds |-> <<>>,
     status |-> 0, images |-> {}, count |-> 0, omittedCount |-> 0, found |-> {},
     fetchOk |-> TRUE]

StoreIdle ==
    /\ db = {}
    /\ nextId = 1
    /\ bucket = {}
    /\ op = NoOp

\* a public object URL: https://storage.googleapis.com/<bucket>/generated/...
StorageUrlLen == 90
StorageUrl(owner, ts) ==
    [Str("https://", StorageUrlLen) EXCEPT !.owner = owner, !.ts = ts]

\* what can happen to one add(): it succeeds, it fails, or it succeeds and
\* the read-back of the new record fails
WriteOutcomes == {"ok", "addfail", "verifyfail"}
\* the inline adapter does not read back
InlineOutcomes == {"ok", "addfail"}

\* an old record whose image was dropped: url "[omitted: too large]"
LegacyDoc == Doc(1, "a", Str("other", 20), 0, "legacy")

\* a mutant of ShouldSkip: only the type check is kept
SkipNonStringsOnly(imageUrl) == imageUrl.ty # "string" \/ imageUrl.len = 0

\* the three guards of the save loop of server.js, each a `continue`
ShouldSkip(imageUrl) ==
    \/ imageUrl.ty # "string" \/ imageUrl.len = 0
    \/ StartsWith(imageUrl, "data:image/")
    \/ ~StartsWith(imageUrl, "http://") /\ ~StartsWith(imageUrl, "https://")

\* the save loop of server.js from index i on: the add() calls it issues
RECURSIVE StorageAdds(_, _)
StorageAdds(imageUrls, i) ==
    IF i > Len(imageUrls) THEN <<>>
    ELSE IF ShouldSkip(imageUrls[i]) THEN StorageAdds(imageUrls, i + 1)
    ELSE <<[i |-> i, url |-> imageUrls[i]]>> \o StorageAdds(imageUrls, i + 1)

\* the documents the add() calls create: a failed add is caught and the
\* loop goes on; a failed verification read leaves the document written
RECURSIVE StorageDocs(_, _, _, _, _)
StorageDocs(userEmail, adds, outcome, k, id) ==
    IF k > Len(adds) THEN {}
    ELSE IF outcome[k] = "addfail"
         THEN StorageDocs(userEmail, adds, outcome, k + 1, id)
         ELSE {Doc(id, userEmail, adds[k].url, 0, "storage")}
                 \cup StorageDocs(userEmail, adds, outcome, k + 1, id + 1)

\* saveImagesToFirestore of server.js (344-415).  list.arr says whether
\* imageUrls is an array; outcome[k] is what the store does with the k-th
\* add() call: "ok", "addfail" or "verifyfail".  It never throws.
saveImagesToFirestore(email, list, outcome) ==
    LET adds == IF ~list.arr \/ Len(list.items) = 0 THEN <<>>
                ELSE StorageAdds(list.items, 1)
        docs == StorageDocs(OrAnonymous(email), adds, outcome, 1, nextId)
    IN  [adds |-> [k \in 1 .. Len(adds) |-> adds[k].url], docs |-> docs]

TruncateAbove == 800000
TruncatedLen == 500014

\* the truncation guard of part_000
UrlToSave(imageUrl) ==
    IF imageUrl.len > TruncateAbove
    THEN [imageUrl EXCEPT !.len = TruncatedLen]
    ELSE imageUrl

\* a mutant of InlineDocs: a failed add is skipped and the loop goes on
RECURSIVE InlineDocsContinue(_, _, _, _, _)
InlineDocsContinue(userEmail, imageUrls, outcome, i, id) ==
    IF i > Len(imageUrls) THEN {}
    ELSE IF imageUrls[i].ty # "string" \/ outcome[i] = "addfail"
    THEN InlineDocsContinue(userEmail, imageUrls, outcome, i + 1, id)
    ELSE {Doc(id, userEmail, UrlToSave(imageUrls[i]), imageUrls[i].len, "inline")}
            \cup InlineDocsContinue(userEmail, imageUrls, outcome, i + 1, id + 1)

\* the save loop of part_000 from index i on: reading .length of a value
\* that is not a string, or a failed add, throws into the outer catch,
\* which ends the loop
RECURSIVE InlineDocs(_, _, _, _, _)
InlineDocs(userEmail, imageUrls, outcome, i, id) ==
    IF i > Len(imageUrls) THEN {}
    ELSE IF imageUrls[i].ty # "string" \/ outcome[i] = "addfail" THEN {}
    ELSE {Doc(id, userEmail, UrlToSave(imageUrls[i]), imageUrls[i].len, "inline")}
            \cup InlineDocs(userEmail, imageUrls, outcome, i + 1, id + 1)

RECURSIVE InlineAdds(_, _, _)
InlineAdds(imageUrls, outcome, i) ==
    IF i > Len(imageUrls) \/ imageUrls[i].ty # "string" THEN <<>>
    ELSE IF outcome[i] = "addfail" THEN <<UrlToSave(imageUrls[i])>>
    ELSE <<UrlToSave(imageUrls[i])>> \o InlineAdds(imageUrls, outcome, i + 1)

\* saveImagesToFirestore of part_000 (118-152).  It never throws.
saveImagesToFirestoreInline(email, list, outcome) ==
    LET items == IF list.arr THEN list.items ELSE <<>>
    IN  [adds |-> InlineAdds(items, outcome, 1),
         docs |-> InlineDocs(OrAnonymous(email), items, outcome, 1, nextId)]

MinGalleryLen == 50

\* a mutant of GalleryAccepts: any long enough string is shown
GalleryAcceptsAnyUrl(url) ==
    url.ty = "string" /\ url.len > MinGalleryLen

\* a mutant of GalleryAccepts: the length test is >= instead of >
GalleryAcceptsAtLeast(url) ==
    url.ty = "string" /\ url.len >= MinGalleryLen /\ StartsWith(url, "data:image/")

\* the filter of GET /gallery/:email on urlValue = data.url || ""
GalleryAccepts(url) ==
    /\ url.ty = "string" /\ url.len # 0
    /\ url.len > MinGalleryLen
    /\ StartsWith(url, "data:image/")

\* urlValue.substring on a truthy value that is not a string throws
GalleryThrows(url) == url.ty \notin {"string", "null"}

\* GET /gallery/:email (939-1025): the response
galleryResponse(email, fetchOk) ==
    LET found == {doc \in db : doc.email = email}
    IN  IF ~fetchOk \/ \E doc \in found : GalleryThrows(doc.url)
        THEN [NoOp EXCEPT !.name = "gallery", !.email = email, !.status = 500,
                          !.found = found, !.fetchOk = fetchOk]
        ELSE LET images == {doc \in found : GalleryAccepts(doc.url)}
                 omitted == {doc \in found : ~GalleryAccepts(doc.url)}
             IN  [NoOp EXCEPT !.name = "gallery", !.email = email, !.status = 200,
                              !.images = images, !.count = Cardinality(images),
                              !.omittedCount = Cardinality(omitted),
                              !.found = found]

(***************************************************************************)
(* The handlers of POST /generate and POST /generate-auto, in the          *)
(* object-storage variant (server.js) and the inline variant (part_000).   *)
(***************************************************************************)
\* the keys of the switch over style, in source order, each with the length
\* of its base text
StyleCases ==
    <<[key |-> "professional_indoor", len |-> 202],
      [key |-> "professional_outdoor", len |-> 189],
      [key |-> "corporate_studio", len |-> 166],
      [key |-> "modern_workspace", len |-> 186],
      [key |-> "personal_office", len |-> 153],
      [key |-> "street", len |-> 137],
      [key |-> "working_computer", len |-> 137],
      [key |-> "writing_notes", len |-> 156],
      [key |-> "presenting_screen", len |-> 177],
      [key |-> "meeting", len |-> 139],
      [key |-> "walking_street", len |-> 152],
      [key |-> "selfie_transport", len |-> 141],
      [key |-> "selfie_office", len |-> 113],
      [key |-> "selfie_outdoor", len |-> 125],
      [key |-> "selfie_pointing", len |-> 168],
      [key |-> "coffee_break", len |-> 121],
      [key |-> "eating", len |-> 114],
      [key |-> "software_interface", len |-> 160],
      [key |-> "app_showcase", len |-> 153],
      [key |-> "digital_product_context", len |-> 121],
      [key |-> "product_neutral", len |-> 115],
      [key |-> "product_real_context", len |-> 134],
      [key |-> "product_used", len |-> 97],
      [key |-> "mentor_leader", len |-> 119],
      [key |-> "creative_portrait", len |-> 127],
      [key |-> "subtle_humor", len |-> 108]>>

\* the base text of the default branch
DefaultCase == [key |-> "default", len |-> 57]

\* a prompt: a base text followed by a closing clause
Prompt(base, clause) == [base |-> base, clause |-> clause]
NoPrompt == Prompt([key |-> "none", len |-> 0], "none")

\* the clause addFidelityRequirements appends: one line in server.js, the
\* same sentences on separate lines in part_000
FidelityClause(variant) ==
    IF variant = "server" THEN "fidelity, one line" ELSE "fidelity, five lines"

addFidelityRequirements(variant, basePrompt) ==
    Prompt(basePrompt, FidelityClause(variant))

\* a mutant of buildPrompt: the default branch leaves the base text bare
buildPromptBareDefault(variant, style) ==
    IF \E k \in 1 .. Len(StyleCases) : StyleCases[k].key = style
    THEN addFidelityRequirements(variant,
            StyleCases[CHOOSE k \in 1 .. Len(StyleCases) : StyleCases[k].key = style])
    ELSE Prompt(DefaultCase, "none")

\* switch (style): the case whose key is strictly equal to style, else default
buildPrompt(variant, style) ==
    IF \E k \in 1 .. Len(StyleCases) : StyleCases[k].key = style
    THEN addFidelityRequirements(variant,
            StyleCases[CHOOSE k \in 1 .. Len(StyleCases) : StyleCases[k].key = style])
    ELSE addFidelityRequirements(variant, DefaultCase)

\* the prompt of /generate-auto: the text of the chat completion followed by
\* the fixed requirements
AutoPrompt == Prompt([key |-> "optimizedPrompt", len |-> 700], "requirements")

\* req.body and the configured API keys; style "" stands for a missing or
\* empty style, and a truthy style that is not a string is like any string
\* that matches no case
NoReq ==
    [email |-> "", googleKey |-> TRUE, openaiKey |-> TRUE,
     style |-> "professional_indoor",
     postText |-> "ok", photos |-> 1, numberOfImages |-> [t |-> "undefined", n |-> 0],
     imageUrl |-> Null]

HIdle ==
    [pc |-> "off", variant |-> "server", endpoint |-> "generate", req |-> NoReq,
     t |-> 0, finalImages |-> <<>>, lastError |-> NoErr, storedImageUrls |-> <<>>,
     saveOutcome |-> <<>>, finalPrompt |-> NoPrompt, chat |-> "none"]

NoRes ==
    [status |-> 0, success |-> FALSE, imageUrls |-> <<>>, message |-> "none",
     prompt |-> NoPrompt]

\* res.status(status).json({success: false, message})
JsonError(status, message) ==
    [NoRes EXCEPT !.status = status, !.message = message]

\* res.json({success: true, imageUrls, prompt: finalPrompt, ...})
JsonSuccess(imageUrls, prompt) ==
    [NoRes EXCEPT !.status = 200, !.success = TRUE, !.imageUrls = imageUrls,
                  !.prompt = prompt]

HandlerIdle ==
    /\ h = HIdle
    /\ res = NoRes

\* a mutant of OrFour: a missing count asks for 1 image
OrOne(v) ==
    IF v.t \in {"undefined", "null", "false", "emptystring"}
          \/ (v.t = "number" /\ v.n = 0)
    THEN Num(1)
    ELSE v

\* numberOfImages || 4
OrFour(v) ==
    IF v.t \in {"undefined", "null", "false", "emptystring"}
          \/ (v.t = "number" /\ v.n = 0)
    THEN Num(4)
    ELSE v

\* a mutant of GenerateChecks: no upper limit on the photos
GenerateChecksNoMax(req) ==
    IF ~req.googleKey THEN JsonError(500, "Missing GOOGLE_API_KEY")
    ELSE IF req.style = "" \/ req.photos < 0
    THEN JsonError(400, "Style and photos array required")
    ELSE IF req.photos = 0 THEN JsonError(400, "At least one photo required")
    ELSE NoRes

\* the input checks of POST /generate, in order; NoRes when all pass
GenerateChecks(req) ==
    IF ~req.googleKey THEN JsonError(500, "Missing GOOGLE_API_KEY")
    ELSE IF req.style = "" \/ req.photos < 0
    THEN JsonError(400, "Style and photos array required")
    ELSE IF req.photos = 0 THEN JsonError(400, "At least one photo required")
    ELSE IF req.photos > 10 THEN JsonError(400, "Maximum 10 photos allowed")
    ELSE NoRes

\* a mutant of AutoChecks: the body is validated before the keys are looked at
AutoChecksBodyFirst(req) ==
    IF req.postText # "ok" THEN JsonError(400, "postText is required")
    ELSE IF req.photos < 1 THEN JsonError(400, "Provide at least 1 selfie (base64)")
    ELSE IF req.photos > 2 THEN JsonError(400, "Maximum 2 photos allowed in auto mode")
    ELSE IF ~req.googleKey THEN JsonError(500, "Missing GOOGLE_API_KEY")
    ELSE IF ~req.openaiKey THEN JsonError(500, "Missing OPENAI_API_KEY")
    ELSE NoRes

\* the input checks of POST /generate-auto, in order; NoRes when all pass
AutoChecks(req) ==
    IF ~req.googleKey THEN JsonError(500, "Missing GOOGLE_API_KEY")
    ELSE IF ~req.openaiKey THEN JsonError(500, "Missing OPENAI_API_KEY")
    ELSE IF req.postText # "ok" THEN JsonError(400, "postText is required")
    ELSE IF req.photos < 1 THEN JsonError(400, "Provide at least 1 selfie (base64)")
    ELSE IF req.photos > 2 THEN JsonError(400, "Maximum 2 photos allowed in auto mode")
    ELSE NoRes

\* POST /generate up to the call of the generation client
HGenerateStart ==
    /\ h.pc = "start"
    /\ h.endpoint = "generate"
    /\ LET checks == GenerateChecks(h.req)
           safeNumberOfImages == clampNumberOfImages(OrFour(h.req.numberOfImages))
       IN  IF checks # NoRes
           THEN /\ res' = checks
                /\ h' = [h EXCEPT !.pc = "done"]
                /\ UNCHANGED <<seq, par, log>>
           ELSE /\ res' = res
                /\ h' = [h EXCEPT !.pc = "generating",
                                  !.finalPrompt = buildPrompt(h.variant, h.req.style)]
                /\ IF h.variant = "server"
                   THEN /\ seq' = SeqReady(Num(safeNumberOfImages))
                        /\ UNCHANGED <<par, log>>
                   ELSE /\ par' = ParLaunch(par, 1, Num(safeNumberOfImages))
                        /\ log' = ParLaunchLog(log, 1, Num(safeNumberOfImages))
                        /\ seq' = seq
    /\ UNCHANGED <<mock, photosOk, clampVars, uiVars, acctVars, storeVars>>

\* const countsToTry = [requestedCount, 1].filter(...) with requestedCount = 2
countsToTry == <<2, 1>>

\* a mutant of ChatFailure: an empty completion is replaced by a stock prompt
ChatFailureFallsBack(chat) ==
    IF chat = "error" THEN JsonError(500, "Prompt generation failed")
    ELSE IF chat = "throw" THEN JsonError(500, "Error during auto generation.")
    ELSE NoRes

\* what the handler answers to the outcome of the chat-completion call: the
\* body carries an error, it has no non-empty content, or the call itself
\* throws; NoRes when it gives a prompt
ChatFailure(chat) ==
    IF chat = "error" THEN JsonError(500, "Prompt generation failed")
    ELSE IF chat = "empty" THEN JsonError(500, "No prompt returned by ChatGPT")
    ELSE IF chat = "throw" THEN JsonError(500, "Error during auto generation.")
    ELSE NoRes

\* POST /generate-auto up to the first tryGenerate; chat is what the
\* chat-completion call gives: "ok", "error", "empty" or "throw"
HAutoStart(chat) ==
    /\ h.pc = "start"
    /\ h.endpoint = "auto"
    /\ LET checks == AutoChecks(h.req)
           early == IF checks # NoRes THEN checks ELSE ChatFailure(chat)
           asked == IF checks # NoRes THEN "none" ELSE chat
       IN  IF early # NoRes
           THEN /\ res' = early
                /\ h' = [h EXCEPT !.pc = "done", !.chat = asked]
                /\ log' = IF checks # NoRes THEN log ELSE Append(log, ChatEvent)
                /\ par' = par
           ELSE /\ res' = res
                /\ h' = [h EXCEPT !.pc = "trying", !.t = 1, !.chat = asked,
                                  !.finalPrompt = AutoPrompt]
                /\ par' = ParLaunch(par, 1, Num(countsToTry[1]))
                /\ log' = ParLaunchLog(Append(log, ChatEvent), 1, Num(countsToTry[1]))
    /\ UNCHANGED <<mock, photosOk, seq, clampVars, uiVars, acctVars, storeVars>>

HAutoStartAny == \E chat \in {"ok", "error", "empty", "throw"} : HAutoStart(chat)

\* the generation client of POST /generate has settled
HGenerated ==
    /\ h.pc = "generating"
    /\ LET r == IF h.variant = "server" THEN seq.res ELSE par.grp[1].res
       IN  /\ IF h.variant = "server" THEN seq.pc = "done" ELSE r.status # "pending"
           /\ IF r.status = "raised"
              THEN /\ res' = JsonError(500, "Error during generation.")
                   /\ h' = [h EXCEPT !.pc = "done"]
              ELSE /\ res' = res
                   /\ h' = [h EXCEPT !.finalImages = r.images,
                                     !.pc = IF h.variant = "server" THEN "upload"
                                            ELSE "save"]
    /\ UNCHANGED <<genVars, clampVars, uiVars, acctVars, storeVars>>

\* Array.from(new Set(arr))
RECURSIVE Unique(_)
Unique(arr) ==
    IF arr = <<>> THEN <<>>
    ELSE LET front == Unique(SubSeq(arr, 1, Len(arr) - 1))
             x == arr[Len(arr)]
         IN  IF \E k \in 1 .. Len(front) : front[k] = x THEN front
             ELSE Append(front, x)

\* unique.slice(0, count)
Slice(arr, count) == SubSeq(arr, 1, Min(count, Len(arr)))

\* a mutant of AutoNoImages: the request ends as a generic internal error
AutoNoImagesAs500(lastError) == JsonError(500, "Error during auto generation.")

\* the response when no count of the ladder yielded an image
AutoNoImages(lastError) ==
    JsonError(502, IF lastError = NoErr THEN "Image model returned no images"
                   ELSE lastError.kind)

\* tryGenerate(c) of the current count has settled: break with its images,
\* or go on to the next count, or give up
HTryDone ==
    /\ h.pc = "trying"
    /\ par.grp[h.t].res.status # "pending"
    /\ LET r == par.grp[h.t].res
           finalImages == IF r.status = "returned"
                          THEN Slice(Unique(r.images), countsToTry[h.t])
                          ELSE h.finalImages
           lastError == IF r.status = "raised" THEN r.error ELSE h.lastError
       IN  IF Len(finalImages) > 0
           THEN /\ h' = [h EXCEPT !.finalImages = finalImages,
                                  !.pc = IF h.variant = "server" THEN "upload"
                                         ELSE "save"]
                /\ UNCHANGED <<res, par, log>>
           ELSE IF h.t < Len(countsToTry)
           THEN /\ h' = [h EXCEPT !.finalImages = finalImages,
                                  !.lastError = lastError, !.t = h.t + 1]
                /\ par' = ParLaunch(par, h.t + 1, Num(countsToTry[h.t + 1]))
                /\ log' = ParLaunchLog(log, h.t + 1, Num(countsToTry[h.t + 1]))
                /\ res' = res
           ELSE /\ h' = [h EXCEPT !.finalImages = finalImages,
                                  !.lastError = lastError, !.pc = "done"]
                /\ res' = AutoNoImages(lastError)
                /\ UNCHANGED <<par, log>>
    /\ UNCHANGED <<mock, photosOk, seq, clampVars, uiVars, acctVars, storeVars>>

\* base64DataUrl.match(/^data:(image\/\w+);base64,(.+)$/)
MatchesDataUrl(base64DataUrl) ==
    base64DataUrl.ty = "string" /\ StartsWith(base64DataUrl, "data:image/")
        /\ base64DataUrl.form = "std"

\* generated/<email || "anonymous">/<Date.now()>.<extension>
FilePath(email, now) == [owner |-> OrAnonymous(email), ts |-> now]

UploadOutcomes == {"ok", "savefail", "publicfail"}

\* uploadGeneratedImageToStorage for one image: whether the object is stored
\* and whether the call resolves (with the public URL of the object)
ObjectStored(img, outcome) == MatchesDataUrl(img) /\ outcome # "savefail"
UploadResolves(img, outcome) == MatchesDataUrl(img) /\ outcome = "ok"

\* Promise.all(finalImages.map(uploadGeneratedImageToStorage)) of server.js:
\* every upload runs to its end; one rejection sends the handler to its catch
HUpload ==
    /\ h.pc = "upload"
    /\ \E outcome \in [1 .. Len(h.finalImages) -> UploadOutcomes],
          now \in [1 .. Len(h.finalImages) -> 1 .. MaxNow] :
          /\ \A k \in 1 .. Len(h.finalImages) - 1 : now[k] <= now[k + 1]
          /\ bucket' = bucket \cup
                {FilePath(h.req.email, now[k]) :
                    k \in {j \in 1 .. Len(h.finalImages) :
                              ObjectStored(h.finalImages[j], outcome[j])}}
          /\ IF \A k \in 1 .. Len(h.finalImages) :
                    UploadResolves(h.finalImages[k], outcome[k])
             THEN /\ h' = [h EXCEPT !.pc = "save",
                                    !.storedImageUrls =
                                        [k \in 1 .. Len(h.finalImages) |->
                                            StorageUrl(OrAnonymous(h.req.email), now[k])]]
                  /\ res' = res
             ELSE /\ h' = [h EXCEPT !.pc = "done"]
                  /\ res' = JsonError(500, IF h.endpoint = "generate"
                                           THEN "Error during generation."
                                           ELSE "Error during auto generation.")
    /\ UNCHANGED <<db, nextId, op, genVars, clampVars, uiVars, acctVars>>

\* a mutant of SaveThrows: a failed add() reaches the caller
SaveThrowsOnFailedAdd(outcome) == \E k \in DOMAIN outcome : outcome[k] = "addfail"

\* which write outcomes leave saveImagesToFirestore as an exception: none,
\* every failure ends in one of its catch blocks
SaveThrows(outcome) == FALSE

\* await saveImagesToFirestore(...) and the success response
HSave ==
    /\ h.pc = "save"
    /\ LET imageUrls == IF h.variant = "server" THEN h.storedImageUrls
                        ELSE h.finalImages
           list == [arr |-> TRUE, items |-> imageUrls]
       IN  \E outcome \in [1 .. Len(imageUrls) -> WriteOutcomes] :
             LET r == IF h.variant = "server"
                      THEN saveImagesToFirestore(h.req.email, list, outcome)
                      ELSE saveImagesToFirestoreInline(h.req.email, list, outcome)
             IN  /\ h.variant = "server" =>
                        \A k \in Len(r.adds) + 1 .. Len(imageUrls) : outcome[k] = "ok"
                 /\ h.variant # "server" =>
                        \A k \in 1 .. Len(imageUrls) : outcome[k] # "verifyfail"
                 /\ db' = db \cup r.docs
                 /\ nextId' = nextId + Cardinality(r.docs)
                 /\ h' = [h EXCEPT !.pc = "done", !.saveOutcome = outcome]
                 /\ res' = IF SaveThrows(outcome)
                           THEN JsonError(500, IF h.endpoint = "generate"
                                               THEN "Error during generation."
                                               ELSE "Error during auto generation.")
                           ELSE JsonSuccess(imageUrls, h.finalPrompt)
    /\ UNCHANGED <<bucket, op, genVars, clampVars, uiVars, acctVars>>

\* what can happen to one image found by /ingest: its download fails, or
\* file.save, makePublic or the add() fails, or it is stored and recorded
IngestOutcomes == {"ok", "fetchfail", "savefail", "publicfail", "addfail"}

\* lab/<email || "anonymous">/<Date.now()>-<random>.<extension>
LabPath(email, now) ==
    [owner |-> CASE email = "" -> "lab/anonymous"
                 [] email = "a" -> "lab/a"
                 [] OTHER -> "lab/b",
     ts |-> now]

\* the records the save loop of /ingest adds, from image k on
RECURSIVE IngestDocs(_, _, _, _)
IngestDocs(email, outcome, k, id) ==
    IF k > Len(outcome) THEN {}
    ELSE IF outcome[k] # "ok" THEN IngestDocs(email, outcome, k + 1, id)
    ELSE {Doc(id, OrAnonymous(email), StorageUrl(LabPath(email, k).owner, k), 0, "ingest")}
            \cup IngestDocs(email, outcome, k + 1, id + 1)

\* POST /ingest (1053-1488) for a body with prenom and nom, as far as the
\* store and the bucket see it: each image found is downloaded, uploaded and
\* recorded, a failure on one image is caught and the loop goes on
HIngest ==
    /\ h.pc = "start"
    /\ h.endpoint = "ingest"
    /\ \E outcome \in UNION {[1 .. n -> IngestOutcomes] : n \in 0 .. MaxDocs} :
          LET docs == IngestDocs(h.req.email, outcome, 1, nextId)
          IN  /\ bucket' = bucket \cup
                    {LabPath(h.req.email, k) :
                        k \in {j \in 1 .. Len(outcome) :
                                  outcome[j] \in {"ok", "publicfail", "addfail"}}}
              /\ db' = db \cup docs
              /\ nextId' = nextId + Cardinality(docs)
              /\ h' = [h EXCEPT !.pc = "done"]
              /\ res' = [NoRes EXCEPT !.status = 200, !.success = TRUE]
    /\ UNCHANGED <<op, genVars, clampVars, uiVars, acctVars>>

\* GET /gallery/:email once the request has been answered, for its email
HGallery ==
    /\ h.pc = "done"
    /\ op = NoOp
    /\ \E fetchOk \in BOOLEAN :
          op' = galleryResponse(OrAnonymous(h.req.email), fetchOk)
    /\ UNCHANGED <<db, nextId, bucket, handlerVars, genVars, clampVars, uiVars, acctVars>>

\* the users collection: one document slot per email
AcctEmails == {"a", "b"}
NoHash == [of |-> ""]
NoUser == [exists |-> FALSE, password_hash |-> NoHash, password |-> "", by |-> 0]
NoUsers == [e \in AcctEmails |-> NoUser]

\* no account request in progress, empty users and selections collections
AcctIdle ==
    /\ users = NoUsers
    /\ selections = {}
    /\ posts = {}
    /\ rq = <<>>

\* !email || !imageUrl
SelectionChecks(req) ==
    IF req.email = "" \/ req.imageUrl.ty # "string" \/ req.imageUrl.len = 0
    THEN JsonError(400, "email and imageUrl are required to save a selection.")
    ELSE NoRes

\* POST /selection: the input check, the add() to the selections collection
\* (which may fail) and the response
HSelection ==
    /\ h.pc = "start"
    /\ h.endpoint = "selection"
    /\ \E addOk \in BOOLEAN :
          LET checks == SelectionChecks(h.req)
          IN  /\ h' = [h EXCEPT !.pc = "done"]
              /\ IF checks # NoRes
                 THEN /\ addOk
                      /\ res' = checks
                      /\ selections' = selections
                 ELSE IF addOk
                 THEN /\ res' = [NoRes EXCEPT !.status = 200, !.success = TRUE,
                                             !.message = "Final image selection saved."]
                      /\ selections' = selections \cup
                            {[email |-> h.req.email,
                              imageUrl |-> UrlToSave(h.req.imageUrl)]}
                 ELSE /\ res' = JsonError(500, "Error saving selection.")
                      /\ selections' = selections
    /\ UNCHANGED <<users, posts, rq, genVars, clampVars, uiVars, storeVars>>

(***************************************************************************)
(* The account endpoints: POST /signup, POST /login, DELETE /delete/:email *)
(* and DELETE /image/:imageId (the same code in both variants), run as     *)
(* concurrent requests.  A request takes one step per await on the store;  *)
(* every store call may fail, which lands in the handler's catch.  The     *)
(* persistence call of a concurrent /generate or /generate-auto is the one *)
(* step of a "generate" request.                                           *)
(***************************************************************************)
Pids == {1, 2}

NoToken == [email |-> "", key |-> "none"]

NoAcctRes == [status |-> 0, success |-> FALSE, message |-> "none", token |-> NoToken]

\* res.status(status).json({success: false, message})
AcctError(status, message) == [NoAcctRes EXCEPT !.status = status, !.message = message]

\* res.json({success, message}): no status is set, so the status is 200
AcctJson(success, message) ==
    [NoAcctRes EXCEPT !.status = 200, !.success = success, !.message = message]

\* a request: endpoint, parameters, whether SECRET_KEY is set in the
\* environment, its position, what it read (doc, snap), which requests had
\* ended at its first step (after) and at its image query (qafter), and its
\* response
AcctReq(ep, email, password, imageId, secret) ==
    [ep |-> ep, email |-> email, password |-> password, imageId |-> imageId,
     secret |-> secret, pc |-> "start", doc |-> NoUser, snap |-> {},
     after |-> {}, qafter |-> {}, res |-> NoAcctRes]

Ended == {q \in DOMAIN rq : rq[q].pc = "done"}

\* bcrypt.hash(password, 10) and bcrypt.compare(plainPassword, hash)
Hash(password) == [of |-> password]

\* a mutant of bcryptCompare: every password matches
bcryptCompareAny(plainPassword, hash) == TRUE

bcryptCompare(plainPassword, hash) == hash.of = plainPassword

\* process.env.SECRET_KEY || "supersecret"
SECRET_KEY(secret) == IF secret THEN "process.env.SECRET_KEY" ELSE "supersecret"

\* jwt.sign({ email }, SECRET_KEY, { expiresIn: "1h" })
jwtSign(email, key) == [email |-> email, key |-> key]

\* the request ends with response r
Respond(p, r) == [rq EXCEPT ![p].pc = "done", ![p].res = r,
                            ![p].after = IF rq[p].pc = "start" THEN Ended ELSE @]

\* a mutant of SignupExists: the existence check is dropped
SignupExistsNever(doc) == FALSE

\* if (doc.exists)
SignupExists(doc) == doc.exists

\* POST /signup up to the end of userRef.get()
Signup(p) ==
    /\ rq[p].pc = "start" /\ rq[p].ep = "signup"
    /\ \E getOk \in BOOLEAN :
          rq' = IF rq[p].email = "" \/ rq[p].password = ""
                THEN Respond(p, AcctError(400, "Email and password required."))
                ELSE IF ~getOk
                THEN Respond(p, AcctError(500, "Error during signup."))
                ELSE IF SignupExists(users[rq[p].email])
                THEN [Respond(p, AcctJson(FALSE, "User already exists."))
                         EXCEPT ![p].doc = users[rq[p].email]]
                ELSE [rq EXCEPT ![p].pc = "write", ![p].after = Ended,
                                ![p].doc = users[rq[p].email]]
    /\ UNCHANGED <<users, selections, posts, genVars, clampVars, uiVars, storeVars, handlerVars>>

\* POST /signup from bcrypt.hash on: userRef.set(...) and the response
SignupWrite(p) ==
    /\ rq[p].pc = "write" /\ rq[p].ep = "signup"
    /\ \E setOk \in BOOLEAN :
          IF setOk
          THEN /\ users' = [users EXCEPT ![rq[p].email] =
                              [exists |-> TRUE, password_hash |-> Hash(rq[p].password),
                               password |-> "", by |-> p]]
               /\ rq' = Respond(p, AcctJson(TRUE, "Signup successful."))
          ELSE /\ users' = users
               /\ rq' = Respond(p, AcctError(500, "Error during signup."))
    /\ UNCHANGED <<selections, posts, genVars, clampVars, uiVars, storeVars, handlerVars>>

\* what /login answers for the user document it read
LoginResponse(email, password, secret, doc) ==
    IF ~doc.exists THEN AcctJson(FALSE, "User not found.")
    ELSE IF doc.password_hash = NoHash /\ doc.password = ""
    THEN AcctJson(FALSE, "Invalid account.")
    ELSE IF doc.password_hash = NoHash /\ password # doc.password
    THEN AcctJson(FALSE, "Incorrect password.")
    ELSE IF doc.password_hash # NoHash /\ ~bcryptCompare(password, doc.password_hash)
    THEN AcctJson(FALSE, "Incorrect password.")
    ELSE [AcctJson(TRUE, "Login successful.")
             EXCEPT !.token = jwtSign(email, SECRET_KEY(secret))]

\* POST /login
Login(p) ==
    /\ rq[p].pc = "start" /\ rq[p].ep = "login"
    /\ \E getOk \in BOOLEAN :
          rq' = IF rq[p].email = "" \/ rq[p].password = ""
                THEN Respond(p, AcctError(400, "Email and password required."))
                ELSE IF ~getOk
                THEN Respond(p, AcctError(500, "Error during login."))
                ELSE [Respond(p, LoginResponse(rq[p].email, rq[p].password,
                                               rq[p].secret, users[rq[p].email]))
                         EXCEPT ![p].doc = users[rq[p].email]]
    /\ UNCHANGED <<users, selections, posts, genVars, clampVars, uiVars, storeVars, handlerVars>>

\* DELETE /delete/:email up to the end of users.doc(email).delete()
DeleteUser(p) ==
    /\ rq[p].pc = "start" /\ rq[p].ep = "delete"
    /\ \E deleteOk \in BOOLEAN :
          IF rq[p].email = ""
          THEN /\ rq' = Respond(p, AcctError(400, "Email required."))
               /\ users' = users
          ELSE IF ~deleteOk
          THEN /\ rq' = Respond(p, AcctError(500, "Error during deletion."))
               /\ users' = users
          ELSE /\ rq' = [rq EXCEPT ![p].pc = "query", ![p].after = Ended]
               /\ users' = [users EXCEPT ![rq[p].email] = NoUser]
    /\ UNCHANGED <<selections, posts, genVars, clampVars, uiVars, storeVars, handlerVars>>

\* a mutant of ImagesOf: the query finds nothing
ImagesOfNone(email) == {}

\* db.collection("images").where("email", "==", email).get()
ImagesOf(email) == {doc \in db : doc.email = email}

\* DELETE /delete/:email: the image query
DeleteQuery(p) ==
    /\ rq[p].pc = "query"
    /\ \E getOk \in BOOLEAN :
          rq' = IF getOk
                THEN [rq EXCEPT ![p].pc = "commit", ![p].snap = ImagesOf(rq[p].email),
                                ![p].qafter = Ended]
                ELSE Respond(p, AcctError(500, "Error during deletion."))
    /\ UNCHANGED <<users, selections, posts, genVars, clampVars, uiVars, storeVars, handlerVars>>

\* a mutant of BatchDelete: every record of the collection is deleted
BatchDeleteAll(images, snap) == {}

\* a mutant of BatchDelete: the batch is committed empty
BatchDeleteNothing(images, snap) == images

\* batch.delete(images.doc(docItem.id)) for each document of the snapshot,
\* then batch.commit()
BatchDelete(images, snap) ==
    {doc \in images : doc.id \notin {d.id : d \in snap}}

\* DELETE /delete/:email: the batch commit and the response
DeleteCommit(p) ==
    /\ rq[p].pc = "commit"
    /\ \E commitOk \in BOOLEAN :
          IF commitOk
          THEN /\ db' = BatchDelete(db, rq[p].snap)
               /\ rq' = Respond(p, AcctJson(TRUE,
                                   "Profile and photos deleted successfully."))
          ELSE /\ db' = db
               /\ rq' = Respond(p, AcctError(500, "Error during deletion."))
    /\ UNCHANGED <<nextId, bucket, op, users, selections, posts, genVars, clampVars, uiVars,
                   handlerVars>>

\* the persistence call of a /generate or /generate-auto request for the
\* email, which has one uploaded image to record
GenerateWrite(p) ==
    /\ rq[p].pc = "start" /\ rq[p].ep = "generate"
    /\ LET imageUrls == <<StorageUrl(OrAnonymous(rq[p].email), 1)>>
           r == saveImagesToFirestore(rq[p].email,
                                      [arr |-> TRUE, items |-> imageUrls], <<"ok">>)
       IN  /\ db' = db \cup r.docs
           /\ nextId' = nextId + Cardinality(r.docs)
           /\ rq' = Respond(p, AcctJson(TRUE, "none"))
    /\ UNCHANGED <<bucket, op, users, selections, posts, genVars, clampVars, uiVars, handlerVars>>

\* DELETE /image/:imageId up to the end of imageRef.get(); imageId 0 stands
\* for a missing id
ImageDelete(p) ==
    /\ rq[p].pc = "start" /\ rq[p].ep = "imageDelete"
    /\ \E getOk \in BOOLEAN :
          rq' = IF rq[p].imageId = 0
                THEN Respond(p, AcctError(400, "Image ID required."))
                ELSE IF ~getOk
                THEN Respond(p, AcctError(500, "Error deleting image."))
                ELSE IF ~\E doc \in db : doc.id = rq[p].imageId
                THEN Respond(p, AcctError(404, "Image not found."))
                ELSE [rq EXCEPT ![p].pc = "remove", ![p].after = Ended]
    /\ UNCHANGED <<users, selections, posts, genVars, clampVars, uiVars, storeVars, handlerVars>>

\* DELETE /image/:imageId: imageRef.delete() and the response
ImageDeleteWrite(p) ==
    /\ rq[p].pc = "remove"
    /\ \E deleteOk \in BOOLEAN :
          IF deleteOk
          THEN /\ db' = {doc \in db : doc.id # rq[p].imageId}
               /\ rq' = Respond(p, AcctJson(TRUE, "Image deleted successfully."))
          ELSE /\ db' = db
               /\ rq' = Respond(p, AcctError(500, "Error deleting image."))
    /\ UNCHANGED <<nextId, bucket, op, users, selections, posts, genVars, clampVars, uiVars,
                   handlerVars>>

(***************************************************************************)
(* The front-end component App (App.js): its React state and its handlers. *)
(* handleGenerate takes one step per await; the other handlers are one     *)
(* step each, with the server's answer as an input.  One handleGenerate    *)
(* run is in progress at a time.                                           *)
(***************************************************************************)
\* useState(null) of selectedImageIndex
NoIndex == 0 - 1

\* the component before it is mounted
UiOff ==
    [pc |-> "off", user |-> "", token |-> "", images |-> <<>>, photos |-> 0,
     style |-> "", flowType |-> "style", postText |-> "", numberOfImages |-> 3,
     loading |-> FALSE, selectedImageIndex |-> NoIndex, intervals |-> 0,
     sent |-> "none"]

UiIdle == ui = UiOff

\* handleLogin: the state is set only on data.success
handleLogin ==
    /\ ui.pc # "off"
    /\ \E success \in BOOLEAN :
          ui' = IF success THEN [ui EXCEPT !.user = "a", !.token = "t"] ELSE ui
    /\ UNCHANGED <<genVars, clampVars, storeVars, handlerVars, acctVars>>

\* the early returns of handleGenerate
GenerateRejected(u) ==
    \/ u.photos = 0
    \/ u.flowType = "style" /\ u.style = ""
    \/ u.flowType = "auto" /\ (u.postText = "" \/ u.photos < 1 \/ u.photos > 2)

\* handleGenerate up to its first await: the state is reset and the progress
\* interval is started
handleGenerate ==
    /\ ui.pc = "idle"
    /\ ui.intervals < MaxTimers
    /\ ui' = IF GenerateRejected(ui) THEN ui
             ELSE [ui EXCEPT !.pc = "reading", !.loading = TRUE, !.images = <<>>,
                             !.selectedImageIndex = NoIndex,
                             !.intervals = @ + 1]
    /\ UNCHANGED <<genVars, clampVars, storeVars, handlerVars, acctVars>>

\* reader.onerror = reject: the rejection of the Promise.all over the
\* FileReaders, which is awaited before the try block, leaves handleGenerate
ReadFailed(u) == [u EXCEPT !.pc = "idle"]

\* await Promise.all(photos.map(...FileReader...))
ReadFiles ==
    /\ ui.pc = "reading"
    /\ \E ok \in BOOLEAN :
          ui' = IF ok THEN [ui EXCEPT !.pc = "fetching"] ELSE ReadFailed(ui)
    /\ UNCHANGED <<genVars, clampVars, storeVars, handlerVars, acctVars>>

\* what the fetch of the generation endpoint can come to: the fetch rejects,
\* res.json() rejects, success false, success true with a list, with one
\* image, or with none
FetchOutcomes == {"network", "badjson", "error", "list", "single", "none"}

\* the lists of image URLs a server answer may carry
ReplyLists ==
    {<<>>, <<"x">>, <<"x", "y">>, <<"x", "x", "y">>, <<"x", "y", "z">>}

\* the try block of handleGenerate and what follows it
FetchReply ==
    /\ ui.pc = "fetching"
    /\ \E outcome \in FetchOutcomes, imageUrls \in ReplyLists :
          LET desiredCount == IF ui.flowType = "auto" THEN 2 ELSE ui.numberOfImages
              images == CASE outcome = "list" -> Slice(Unique(imageUrls), desiredCount)
                          [] outcome = "single" -> <<"x">>
                          [] OTHER -> ui.images
          IN  ui' = [ui EXCEPT !.pc = "idle", !.images = images, !.loading = FALSE,
                               !.intervals = @ - 1]
    /\ UNCHANGED <<genVars, clampVars, storeVars, handlerVars, acctVars>>

\* handleSelectImage(index) for an index of a displayed image
handleSelectImage ==
    /\ ui.pc # "off"
    /\ \E index \in 0 .. Len(ui.images) - 1 :
          ui' = [ui EXCEPT !.selectedImageIndex = index]
    /\ UNCHANGED <<genVars, clampVars, storeVars, handlerVars, acctVars>>

\* images[selectedImageIndex], "undefined" past the end of the array
ImageAt(images, index) ==
    IF index \in 0 .. Len(images) - 1 THEN images[index + 1] ELSE "undefined"

\* handleSaveSelection: sent is the imageUrl of the body it posts
handleSaveSelection ==
    /\ ui.pc # "off"
    /\ ui' = IF ui.user = "" \/ ui.selectedImageIndex = NoIndex THEN ui
             ELSE [ui EXCEPT !.sent = ImageAt(ui.images, ui.selectedImageIndex)]
    /\ UNCHANGED <<genVars, clampVars, storeVars, handlerVars, acctVars>>

\* the state updates of handleDeleteAll on data.success
DeleteAllSucceeded(u) ==
    [u EXCEPT !.photos = 0, !.images = <<>>, !.user = "", !.token = ""]

handleDeleteAll ==
    /\ ui.pc # "off"
    /\ \E success \in BOOLEAN :
          ui' = IF ui.user # "" /\ success THEN DeleteAllSucceeded(ui) ELSE ui
    /\ UNCHANGED <<genVars, clampVars, storeVars, handlerVars, acctVars>>

handleLogout ==
    /\ ui.pc # "off"
    /\ ui' = [ui EXCEPT !.user = "", !.token = ""]
    /\ UNCHANGED <<genVars, clampVars, storeVars, handlerVars, acctVars>>

\* the generation clients at rest
GenIdle ==
    /\ mock = <<>>
    /\ photosOk = TRUE
    /\ log = <<>>
    /\ seq = SeqIdle
    /\ par = ParIdle

(***************************************************************************)
(* SpecClamp: clampNumberOfImages applied to every input value.            *)
(***************************************************************************)
ClampIdle ==
    /\ cval = [t |-> "undefined", n |-> 0]
    /\ cres = <<>>

InitClamp ==
    /\ cval \in JsValues
    /\ cres = <<>>
    /\ GenIdle
    /\ StoreIdle
    /\ HandlerIdle
    /\ AcctIdle
    /\ UiIdle

ClampCall ==
    /\ cres = <<>>
    /\ cres' = <<clampNumberOfImages(cval)>>
    /\ UNCHANGED cval
    /\ UNCHANGED <<genVars, storeVars, handlerVars, acctVars, uiVars>>

NextClamp == ClampCall

SpecClamp == InitClamp /\ [][NextClamp]_vars

\* the integer nearest to n tenths, ties towards +infinity
IsNearestInteger(r, n) == 10 * r - 5 <= n /\ n < 10 * r + 5

\* C1: clampNumberOfImages returns an integer in 1..4 for every input; a value
\* that does not convert to a finite number gives 1, any other value is rounded
\* to the nearest integer and clamped to [1,4]; clamp(0)=1, clamp(7)=4,
\* clamp("abc")=1, clamp(2.6)=3.
C1_ClampRange ==
    cres # <<>> =>
        /\ cres[1] \in 1 .. 4
        /\ cval.t \in {"text", "undefined", "infinity", "neginfinity", "object"}
              => cres[1] = 1
        /\ cval.t \in {"number", "numstring"} =>
              \E r \in (0 - MaxAbs - 1) .. (MaxAbs + 1) :
                  /\ IsNearestInteger(r, cval.n)
                  /\ cres[1] = (IF r < 1 THEN 1 ELSE IF r > 4 THEN 4 ELSE r)
        /\ cval = [t |-> "number", n |-> 0] => cres[1] = 1
        /\ cval = [t |-> "number", n |-> 70] => cres[1] = 4
        /\ cval = [t |-> "text", n |-> 0] => cres[1] = 1
        /\ cval = [t |-> "number", n |-> 26] => cres[1] = 3

C1_Witness ==
    /\ cval = [t |-> "number", n |-> 26]
    /\ cres = <<3>>

(***************************************************************************)
(* SpecGen: a generation client run against every mocked upstream.         *)
(***************************************************************************)
SeqCalls(n) == {1} \X (1 .. n) \X (1 .. 2)

\* the replies the mock draws from in SpecGen; the payload of image i is
\* the i-th payload, so that the order of the result can be read off
SeqReplyKinds == {"image", "apierror", "safety"}
PayloadOf(i) == CASE i = 1 -> "A" [] i = 2 -> "B" [] i = 3 -> "C" [] OTHER -> "D"

SeqMocks(n) ==
    {[c \in SeqCalls(n) |-> [k |-> f[c], d |-> PayloadOf(c[2])]] :
        f \in [SeqCalls(n) -> SeqReplyKinds]}

SeqInputs == {Num(k) : k \in {0, 1, 2, 3, 7}}

InitSeq ==
    /\ seq \in {SeqReady(v) : v \in SeqInputs}
    /\ par = ParIdle
    /\ \/ /\ photosOk = TRUE
          /\ mock \in SeqMocks(clampNumberOfImages(seq.numberOfImages))
       \/ /\ photosOk = FALSE
          /\ mock = [c \in SeqCalls(clampNumberOfImages(seq.numberOfImages))
                        |-> [k |-> "image", d |-> PayloadOf(c[2])]]
    /\ log = <<>>

ParCalls(t, n) == {t} \X (1 .. n) \X (1 .. 2)

ParMocks(n) ==
    {[c \in ParCalls(1, n) |-> [k |-> f[c], d |-> PayloadOf(c[2])]] :
        f \in [ParCalls(1, n) -> SeqReplyKinds]}

ParInputs == {Num(k) : k \in {1, 2, 3}}

InitPar ==
    /\ par \in {ParReady(v) : v \in ParInputs}
    /\ seq = SeqIdle
    /\ photosOk = TRUE
    /\ mock \in ParMocks(clampNumberOfImages(par.numberOfImages))
    /\ log = <<>>

InitGen ==
    /\ InitSeq \/ InitPar
    /\ ClampIdle
    /\ StoreIdle
    /\ HandlerIdle
    /\ AcctIdle
    /\ UiIdle

NextGen ==
    \/ SeqStart
    \/ SeqAttempt
    \/ SeqSleepRetry
    \/ SeqSleepNext
    \/ ParStart
    \/ ParReplyAny

SpecGen == InitGen /\ [][NextGen]_vars

(***************************************************************************)
(* SpecScan: both clients asked for 2 images, where the first reply for    *)
(* image 1 is any body of candidates and parts and every later reply       *)
(* carries one image.                                                      *)
(***************************************************************************)
\* the payload of the part at position k of candidate c
PosPayload(c, k) ==
    CASE c = 1 -> IF k = 1 THEN "c1p1" ELSE "c1p2"
      [] c = 2 -> IF k = 1 THEN "c2p1" ELSE "c2p2"
      [] OTHER -> IF k = 1 THEN "c3p1" ELSE "c3p2"

\* the part lists of a candidate, as kinds: no part, no match, one match,
\* a match after a text part, two matches in either order
PartLists ==
    {<<>>, <<"text">>, <<"inline">>, <<"text", "textData">>,
     <<"inline", "textData">>, <<"textData", "inline">>}

\* candidate number c with finishReason fr and parts of the kinds ks
CandAt(c, fr, ks) == Cand(fr, [k \in 1 .. Len(ks) |-> Part(ks[k], "std", PosPayload(c, k))])

FinishReasons == {"STOP", "MAX_TOKENS", "SAFETY", "RECITATION", "IMAGE_OTHER"}

\* the candidate lists of a reply with reasons from frs
ScanReplies(frs) ==
    UNION {{[c \in 1 .. n |-> CandAt(c, f[c], g[c])] :
               f \in [1 .. n -> frs], g \in [1 .. n -> PartLists]} :
           n \in 0 .. MaxCands}

ScanMock(cands) ==
    [c \in SeqCalls(2) |->
        IF c = <<1, 1, 1>> THEN [k |-> "reply", d |-> "none", cands |-> cands]
        ELSE [k |-> "image", d |-> "R", cands |-> <<>>]]

InitScan ==
    /\ \/ /\ seq = SeqReady(Num(2))
          /\ par = ParIdle
          /\ mock \in {ScanMock(cands) : cands \in ScanReplies(FinishReasons)}
       \/ /\ par = ParReady(Num(2))
          /\ seq = SeqIdle
          /\ mock \in {ScanMock(cands) : cands \in ScanReplies({"STOP", "SAFETY"})}
    /\ photosOk = TRUE
    /\ log = <<>>
    /\ ClampIdle
    /\ StoreIdle
    /\ HandlerIdle
    /\ AcctIdle
    /\ UiIdle

SpecScan == InitScan /\ [][NextGen]_vars

(***************************************************************************)
(* SpecStore: any sequence of persistence calls (both variants) and        *)
(* gallery requests on one images collection.                              *)
(***************************************************************************)
SeqsUpTo(S, n) == UNION {[1 .. k -> S] : k \in 0 .. n}

\* values a caller may hand to the object-storage adapter
StoreValues ==
    {Null, Str("other", 0), DataUrl("std", "A", InlineLen),
     Str("http://", 60), StorageUrl("a", 1)}

\* data URLs the generation client hands to the inline adapter
InlineValues ==
    {DataUrl("std", "A", MinGalleryLen), DataUrl("std", "A", MinGalleryLen + 1),
     DataUrl("std", "B", InlineLen), DataUrl("std", "A", TruncateAbove + 1)}

\* the lists of at most n items of S, and a value that is not an array
ListsOf(S, n) ==
    {[arr |-> TRUE, items |-> q] : q \in SeqsUpTo(S, n)}
        \cup {[arr |-> FALSE, items |-> <<>>]}

Room == MaxDocs - Cardinality(db)

InitStore ==
    /\ \/ db = {} /\ nextId = 1
       \/ db = {LegacyDoc} /\ nextId = 2
    /\ bucket = {}
    /\ op = NoOp
    /\ ClampIdle
    /\ GenIdle
    /\ HandlerIdle
    /\ AcctIdle
    /\ UiIdle

StoreSave ==
    \E email \in {"a", ""}, list \in ListsOf(StoreValues, Room) :
      \E outcome \in [1 .. Len(StorageAdds(list.items, 1)) -> WriteOutcomes] :
        LET r == saveImagesToFirestore(email, list, outcome)
        IN  /\ db' = db \cup r.docs
            /\ nextId' = nextId + Cardinality(r.docs)
            /\ op' = [NoOp EXCEPT !.name = "saveStorage", !.email = email,
                                  !.imageUrls = list.items, !.adds = r.adds]
            /\ UNCHANGED <<bucket, clampVars, uiVars, acctVars, genVars, handlerVars>>

InlineSave ==
    \E email \in {"a", ""}, list \in ListsOf(InlineValues, Room) :
      \E outcome \in [1 .. Len(list.items) -> InlineOutcomes] :
        LET r == saveImagesToFirestoreInline(email, list, outcome)
        IN  /\ db' = db \cup r.docs
            /\ nextId' = nextId + Cardinality(r.docs)
            /\ op' = [NoOp EXCEPT !.name = "saveInline", !.email = email,
                                  !.imageUrls = list.items, !.adds = r.adds]
            /\ UNCHANGED <<bucket, clampVars, uiVars, acctVars, genVars, handlerVars>>

Gallery ==
    \E email \in Emails \cup {"anonymous"}, fetchOk \in BOOLEAN :
        /\ op' = galleryResponse(email, fetchOk)
        /\ UNCHANGED <<db, nextId, bucket, clampVars, uiVars, acctVars, genVars, handlerVars>>

NextStore == StoreSave \/ InlineSave \/ Gallery

SpecStore == InitStore /\ [][NextStore]_vars

(***************************************************************************)
(* Spec: one request to POST /generate or POST /generate-auto, against     *)
(* every mocked upstream, in either variant.                               *)
(***************************************************************************)
\* requests that pass the input checks
GoodRequests ==
    {[NoReq EXCEPT !.email = e, !.numberOfImages = n] :
        e \in {"a", ""},
        n \in {[t |-> "undefined", n |-> 0], Num(1), Num(2)}}

\* bodies that fail an input check of at least one of the two endpoints
BadBodies ==
    {[NoReq EXCEPT !.style = ""], [NoReq EXCEPT !.postText = "missing"],
     [NoReq EXCEPT !.postText = "notstring"]}
        \cup {[NoReq EXCEPT !.photos = n] : n \in {0 - 1, 0, 3, 11}}

\* those bodies, and a good one, under every configuration of the API keys
BadRequests ==
    {[b EXCEPT !.googleKey = g, !.openaiKey = o] :
        b \in BadBodies \cup {NoReq}, g \in BOOLEAN, o \in BOOLEAN}

\* the styles a request may name: every key of the switch, and strings that
\* match none
StyleInputs ==
    {StyleCases[k].key : k \in 1 .. Len(StyleCases)} \cup {"unknown_key", "Street"}

\* the bodies of POST /selection: email and imageUrl present or not
SelectionRequests ==
    {[NoReq EXCEPT !.email = e, !.imageUrl = u] :
        e \in {"a", ""},
        u \in {Null, Str("", 0), StorageUrl("a", 1),
               DataUrl("std", "A", TruncateAbove + 1)}}

StyleRequests ==
    {[NoReq EXCEPT !.style = s, !.numberOfImages = Num(1)] : s \in StyleInputs}

\* the values of numberOfImages a body may carry beside those of
\* GoodRequests: falsy ones, a string, counts outside 1..4
CountInputs ==
    {Num(0), Num(3), Num(7), Num(0 - 1),
     [t |-> "null", n |-> 0], [t |-> "emptystring", n |-> 0],
     [t |-> "false", n |-> 0], [t |-> "numstring", n |-> 0],
     [t |-> "numstring", n |-> 25], [t |-> "text", n |-> 0]}

CountRequests == {[NoReq EXCEPT !.numberOfImages = n] : n \in CountInputs}

HStarting(variant, endpoint, req) ==
    [HIdle EXCEPT !.pc = "start", !.variant = variant, !.endpoint = endpoint,
                  !.req = req]

\* the mocked upstream of a /generate request for n images: every reply
\* pattern for up to 2 images, the two basic replies beyond
GenerateMocks(n) ==
    {[c \in SeqCalls(n) |-> [k |-> f[c], d |-> PayloadOf(c[2])]] :
        f \in [SeqCalls(n) -> IF n <= 2 THEN {"image", "oddimage", "apierror"}
                              ELSE {"image", "apierror"}]}

AutoCalls == ParCalls(1, countsToTry[1]) \cup ParCalls(2, countsToTry[2])

\* the mocked upstream of a /generate-auto request; the second image of a
\* group may or may not equal the first
AutoMocks ==
    {[c \in AutoCalls |-> IF f[c] = "apierror" THEN [k |-> "apierror", d |-> "A"]
                          ELSE [k |-> "image", d |-> f[c]]] :
        f \in {g \in [AutoCalls -> {"A", "B", "apierror"}] :
                  \A c \in AutoCalls : c[2] = 1 => g[c] # "B"}}

DefaultMock(calls) == [c \in calls |-> [k |-> "image", d |-> PayloadOf(c[2])]]

Init ==
    /\ db = {LegacyDoc}
    /\ nextId = 2
    /\ bucket = {}
    /\ op = NoOp
    /\ ClampIdle
    /\ seq = SeqIdle
    /\ par = ParIdle
    /\ log = <<>>
    /\ res = NoRes
    /\ AcctIdle
    /\ UiIdle
    /\ \E variant \in {"server", "part000"} :
          \/ /\ h \in {HStarting(variant, "generate", r) : r \in GoodRequests}
             /\ LET n == clampNumberOfImages(OrFour(h.req.numberOfImages))
                IN  \/ /\ photosOk = TRUE
                       /\ mock \in GenerateMocks(n)
                    \/ /\ photosOk = FALSE
                       /\ variant = "server"
                       /\ mock = DefaultMock(SeqCalls(n))
          \/ /\ h \in {HStarting(variant, "auto", r) :
                          r \in {q \in GoodRequests : q.numberOfImages.t = "undefined"}}
             /\ photosOk = TRUE
             /\ mock \in AutoMocks
          \/ /\ h \in {HStarting(variant, e, r) :
                          e \in {"generate", "auto"}, r \in BadRequests}
             /\ photosOk = TRUE
             /\ mock = DefaultMock((1 .. 2) \X (1 .. MAX_IMAGES) \X (1 .. 2))
          \/ /\ h \in {HStarting(variant, "selection", r) : r \in SelectionRequests}
             /\ photosOk = TRUE
             /\ mock = DefaultMock(SeqCalls(1))
          \/ /\ h \in {HStarting(variant, "generate", r) : r \in StyleRequests}
             /\ photosOk = TRUE
             /\ mock = DefaultMock(SeqCalls(1))
          \/ /\ h \in {HStarting(variant, "ingest", r) : r \in GoodRequests}
             /\ variant = "server"
             /\ photosOk = TRUE
             /\ mock = DefaultMock(SeqCalls(1))
          \/ /\ h \in {HStarting(variant, "generate", r) : r \in CountRequests}
             /\ photosOk = TRUE
             /\ mock = DefaultMock(SeqCalls(MAX_IMAGES))

\* the steps of the request
HandlerNext ==
    \/ HGenerateStart
    \/ HAutoStartAny
    \/ SeqStart
    \/ SeqAttempt
    \/ SeqSleepRetry
    \/ SeqSleepNext
    \/ ParReplyAny
    \/ HGenerated
    \/ HTryDone
    \/ HUpload
    \/ HSave
    \/ HSelection
    \/ HIngest

Next == HandlerNext \/ HGallery

Spec == Init /\ [][Next]_vars

(***************************************************************************)
(* SpecAcct: two concurrent account requests on one users collection and   *)
(* one images collection.                                                  *)
(***************************************************************************)
Passwords == {"p1", "p2"}

AcctRequests ==
    {AcctReq("signup", e, pw, 0, TRUE) : e \in {"a", ""}, pw \in Passwords \cup {""}}
        \cup {AcctReq("login", e, pw, 0, k) :
                 e \in {"a", ""}, pw \in Passwords \cup {""}, k \in BOOLEAN}
        \cup {AcctReq("delete", e, "", 0, TRUE) : e \in {"a", ""}}
        \cup {AcctReq("generate", e, "", 0, TRUE) : e \in {"a", "b"}}
        \cup {AcctReq("imageDelete", "", "", id, TRUE) : id \in {0, 1, 9}}

\* the documents an account may have: none, one written by signup, a legacy
\* one with a plaintext password, one with neither field, one with both
UserDocs ==
    {NoUser,
     [NoUser EXCEPT !.exists = TRUE, !.password_hash = Hash("p1")],
     [NoUser EXCEPT !.exists = TRUE, !.password = "p1"],
     [NoUser EXCEPT !.exists = TRUE],
     [NoUser EXCEPT !.exists = TRUE, !.password_hash = Hash("p1"), !.password = "p2"]}

OtherDoc == Doc(2, "b", StorageUrl("b", 1), 0, "storage")

\* what earlier requests of the two emails left in the selections and
\* posts_analysis collections and in the bucket
OldSelections == {[email |-> "a", imageUrl |-> StorageUrl("a", 1)]}
OldPosts == {[email |-> e, postText |-> "post"] : e \in {"a", "b"}}
OldObjects == {FilePath("a", 1), FilePath("b", 1)}

InitAcct ==
    /\ users \in {[NoUsers EXCEPT !["a"] = u] : u \in UserDocs}
    /\ selections = OldSelections
    /\ posts = OldPosts
    /\ rq \in {<<r1, r2>> : r1 \in AcctRequests, r2 \in AcctRequests}
    /\ db = {LegacyDoc, OtherDoc}
    /\ nextId = 3
    /\ bucket = OldObjects
    /\ op = NoOp
    /\ ClampIdle
    /\ GenIdle
    /\ HandlerIdle
    /\ UiIdle

NextAcct ==
    \/ \E p \in Pids : Signup(p)
    \/ \E p \in Pids : SignupWrite(p)
    \/ \E p \in Pids : Login(p)
    \/ \E p \in Pids : DeleteUser(p)
    \/ \E p \in Pids : DeleteQuery(p)
    \/ \E p \in Pids : DeleteCommit(p)
    \/ \E p \in Pids : GenerateWrite(p)
    \/ \E p \in Pids : ImageDelete(p)
    \/ \E p \in Pids : ImageDeleteWrite(p)

SpecAcct == InitAcct /\ [][NextAcct]_vars

(***************************************************************************)
(* SpecUi: any sequence of the handlers of App on a mounted component;     *)
(* SpecUiLive adds that an await of handleGenerate that can settle does.   *)
(***************************************************************************)
InitUi ==
    /\ ui \in {[UiOff EXCEPT !.pc = "idle", !.photos = n, !.style = st,
                             !.flowType = f, !.postText = "post",
                             !.numberOfImages = k] :
                  n \in {0, 1, 3}, st \in {"", "studio"}, f \in {"style", "auto"},
                  k \in {1, 3}}
    /\ ClampIdle
    /\ GenIdle
    /\ StoreIdle
    /\ HandlerIdle
    /\ users = NoUsers
    /\ selections = {}
    /\ posts = {}
    /\ rq = <<>>

NextUi ==
    \/ handleLogin
    \/ handleGenerate
    \/ ReadFiles
    \/ FetchReply
    \/ handleSelectImage
    \/ handleSaveSelection
    \/ handleDeleteAll
    \/ handleLogout

SpecUi == InitUi /\ [][NextUi]_vars

SpecUiLive == SpecUi /\ WF_vars(ReadFiles) /\ WF_vars(FetchReply)

(***************************************************************************)
(* Claims about the generation clients (SpecGen).                          *)
(***************************************************************************)
\* what the mocked upstream makes of attempt a of image i of group t
PlanHardened(i, a) == AttemptHardened(ReplyOf(mock[<<1, i, a>>]))
PlanSimple(t, i, a) == AttemptSimple(ReplyOf(mock[<<t, i, a>>]))

CallsMade(t, i) ==
    Cardinality({k \in 1 .. Len(log) :
                    log[k].e = "call" /\ log[k].t = t /\ log[k].i = i})

\* what the claim says of one settled generateSingleImage call, given the
\* outcomes o1 and o2 of its two planned upstream calls
SingleImageAsClaimed(settled, calls, o1, o2, i) ==
    /\ o1.ok => settled = Resolved(o1.img) /\ calls = 1
    /\ ~o1.ok /\ o2.ok => settled = Resolved(o2.img) /\ calls = 2
    /\ ~o1.ok /\ ~o2.ok => settled = Rejected(Err(o2.kind, i, 2)) /\ calls = 2

SettledOf(pr) == IF pr.st = "resolved" THEN Resolved(pr.img) ELSE Rejected(pr.lastError)

\* C2: for one image, generateSingleImage makes at most 2 upstream calls; when
\* the first call fails and the second succeeds it returns one image after
\* exactly 2 calls; when both fail it raises the error of the last attempt
\* after exactly 2 calls; when the first succeeds there is no second call
\* (hardened and simple variant alike).
C2_RetryOnce ==
    /\ \A i \in 1 .. MAX_IMAGES : \A t \in 1 .. 2 : CallsMade(t, i) <= 2
    /\ photosOk =>
          \A i \in 1 .. Len(seq.single) :
              SingleImageAsClaimed(seq.single[i], CallsMade(1, i),
                                   PlanHardened(i, 1), PlanHardened(i, 2), i)
    /\ \A k \in DOMAIN par.procs :
          par.procs[k].st # "running" =>
              SingleImageAsClaimed(SettledOf(par.procs[k]), CallsMade(k[1], k[2]),
                                   PlanSimple(k[1], k[2], 1),
                                   PlanSimple(k[1], k[2], 2), k[2])

C2_Witness ==
    /\ photosOk
    /\ Len(seq.single) >= 2
    /\ ~PlanHardened(1, 1).ok /\ seq.single[1].ok /\ CallsMade(1, 1) = 2
    /\ ~seq.single[2].ok /\ CallsMade(1, 2) = 2

\* whether image i of the sequential call can be generated, and as what
CanGenerate(i) == photosOk /\ (PlanHardened(i, 1).ok \/ PlanHardened(i, 2).ok)
GeneratedImage(i) ==
    IF PlanHardened(i, 1).ok THEN PlanHardened(i, 1).img ELSE PlanHardened(i, 2).img

\* the images among i .. n that can be generated, in generation order
RECURSIVE SuccessfulImages(_, _)
SuccessfulImages(i, n) ==
    IF i > n THEN <<>>
    ELSE (IF CanGenerate(i) THEN <<GeneratedImage(i)>> ELSE <<>>)
            \o SuccessfulImages(i + 1, n)

\* C3: in the sequential variant, once at least one image has been generated
\* the failure of a later image raises no error: the remaining images are
\* still attempted and the call returns exactly the successful images in
\* generation order (images 1 and 3 when image 2 of 3 fails).
C3_PartialSuccess ==
    seq.pc = "done" /\ CanGenerate(1) =>
        /\ seq.res = Returned(SuccessfulImages(1, seq.safeCount))
        /\ \A i \in 1 .. seq.safeCount : CallsMade(1, i) >= 1
        /\ seq.safeCount = 3 /\ ~CanGenerate(2) /\ CanGenerate(3)
              => seq.res.images = <<GeneratedImage(1), GeneratedImage(3)>>

C3_Witness ==
    /\ seq.pc = "done"
    /\ seq.safeCount = 3
    /\ CanGenerate(1) /\ ~CanGenerate(2) /\ CanGenerate(3)
    /\ seq.res.status = "returned"
    /\ seq.res.images = <<DataUrl("std", "A", InlineLen), DataUrl("std", "C", InlineLen)>>

\* C4: the sequential variant raises an error only on complete failure: it
\* raises if and only if none of the safeCount requested images can be
\* generated, and otherwise returns the successful subset without error.
C4_RaisesOnlyOnCompleteFailure ==
    seq.pc = "done" =>
        /\ seq.res.status = "raised"
              <=> \A i \in 1 .. seq.safeCount : ~CanGenerate(i)
        /\ seq.res.status = "returned"
              => seq.res.images = SuccessfulImages(1, seq.safeCount)

\* C22: in the parallel (simple) variant all safeCount per-image generations
\* are started without waiting for one another, and the call completes
\* (returns its result or raises) only after every one of them has settled.
C22_JoinedWhenAllSettle ==
    \A t \in DOMAIN par.grp :
        LET g == par.grp[t]
        IN  /\ \A i \in 1 .. g.safeCount :
                  <<t, i>> \in DOMAIN par.procs /\ CallsMade(t, i) >= 1
            /\ g.res.status # "pending" =>
                  \A i \in 1 .. g.safeCount : par.procs[<<t, i>>].st # "running"

\* C23: in the hardened (sequential) variant at most one upstream call is in
\* flight at a time, and every two consecutive upstream calls of one invocation
\* are separated by a pacing sleep: 5 seconds between the two attempts of one
\* image, 3 seconds between the last call of one image and the first call of
\* the next.
C23_PacedCalls ==
    seq.pc # "off" =>
        \A k \in 1 .. Len(log) - 1 :
            log[k].e = "call" =>
                /\ log[k + 1].e = "sleep"
                /\ k + 2 <= Len(log) =>
                      /\ log[k + 2].e = "call"
                      /\ log[k + 1].ms = IF log[k + 2].i = log[k].i THEN 5000 ELSE 3000

(***************************************************************************)
(* Claims about reading one reply (SpecScan).                              *)
(***************************************************************************)
\* the candidates of the first reply for image 1
ScanReply == mock[<<1, 1, 1>>].cands

\* the positions <<c, k>> of the matching parts of a reply
Matches(cands) ==
    UNION {{<<c, k>> : k \in {j \in 1 .. Len(cands[c].parts) :
                                 cands[c].parts[j].k \in {"inline", "textData"}}} :
           c \in 1 .. Len(cands)}

FirstMatch(cands) ==
    CHOOSE m \in Matches(cands) :
        \A n \in Matches(cands) : m[1] < n[1] \/ (m[1] = n[1] /\ m[2] <= n[2])

UrlAt(cands, m) ==
    LET part == cands[m[1]].parts[m[2]]
    IN  DataUrl(part.form, part.d, part.len)

\* the first attempt for image 1 of the hardened client is over
FirstAttemptDone ==
    /\ seq.pc \notin {"off", "ready"}
    /\ ~(seq.pc = "attempt" /\ seq.i = 1 /\ seq.attempt = 1)

\* image 1 of the hardened client has settled after n upstream calls
SettledAfter(n) == Len(seq.single) >= 1 /\ CallsMade(1, 1) = n

\* C21: within one upstream response the extracted image is the first match in
\* candidate order then part order (a part matches if it carries inline image
\* data or is a text part starting with "data:image/"); no later candidate or
\* part is used, and an attempt with no matching part in any candidate fails.
C21_FirstMatch ==
    mock[<<1, 1, 1>>].k = "reply" =>
        LET cands == ScanReply
            M == Matches(cands)
        IN  /\ SettledAfter(1) =>
                /\ M # {}
                /\ seq.single[1] = Resolved(UrlAt(cands, FirstMatch(cands)))
            /\ M = {} /\ FirstAttemptDone =>
                \/ /\ seq.i = 1 /\ seq.attempt = 2
                   /\ seq.lastError \in {Err("noimage", 1, 1), Err("blocked", 1, 1)}
                \/ CallsMade(1, 1) = 2
            /\ <<1, 1>> \in DOMAIN par.procs =>
                LET pr == par.procs[<<1, 1>>]
                IN  /\ pr.st = "resolved" /\ pr.attempt = 1 =>
                        /\ M # {}
                        /\ pr.img = UrlAt(cands, FirstMatch(cands))
                    /\ pr.attempt = 2 =>
                        /\ M = {}
                        /\ pr.st = "running" => pr.lastError = Err("noimage", 1, 1)

\* an image taken from a reply with several matching parts whose first
\* candidate has none
C21_Witness ==
    /\ mock[<<1, 1, 1>>].k = "reply"
    /\ SettledAfter(1)
    /\ Cardinality(Matches(ScanReply)) >= 2
    /\ FirstMatch(ScanReply)[1] = 2

\* a candidate with a blocking finishReason is reached before any match
Blocked(cands) ==
    \E c \in 1 .. Len(cands) :
        /\ cands[c].finishReason \in {"SAFETY", "RECITATION", "IMAGE_OTHER"}
        /\ \A m \in Matches(cands) : m[1] >= c

\* C26: in the hardened variant a candidate with finishReason SAFETY,
\* RECITATION or IMAGE_OTHER reached before any image has been found fails the
\* attempt with the blocked-generation error even if that or a later candidate
\* holds an image; the failure consumes one of the two attempts; a candidate
\* with another non-STOP finishReason does not by itself fail the attempt.
C26_BlockedAttempt ==
    mock[<<1, 1, 1>>].k = "reply" /\ seq.pc # "off" =>
        LET cands == ScanReply
        IN  /\ Blocked(cands) =>
                /\ seq.pc = "sleep5" /\ seq.i = 1 =>
                      seq.lastError = Err("blocked", 1, 1)
                /\ ~SettledAfter(1)
                /\ Len(seq.single) >= 1 => CallsMade(1, 1) = 2
            /\ ~Blocked(cands) /\ Matches(cands) # {} /\ Len(seq.single) >= 1 =>
                /\ CallsMade(1, 1) = 1
                /\ seq.single[1].ok

\* a blocked first attempt on a reply that holds images, the blocking
\* candidate included, and a MAX_TOKENS candidate passed over before it
C26_Witness ==
    /\ mock[<<1, 1, 1>>].k = "reply"
    /\ seq.pc = "sleep5"
    /\ seq.lastError.kind = "blocked"
    /\ Len(ScanReply) = 2
    /\ ScanReply[1].finishReason = "MAX_TOKENS"
    /\ ScanReply[2].finishReason = "RECITATION"
    /\ <<2, 1>> \in Matches(ScanReply)

(***************************************************************************)
(* Claims about the request handlers (Spec).                               *)
(***************************************************************************)
\* the base texts the switch over style can select
BaseTextOf(style) ==
    CASE style = "professional_indoor" -> [key |-> style, len |-> 202]
      [] style = "professional_outdoor" -> [key |-> style, len |-> 189]
      [] style = "corporate_studio" -> [key |-> style, len |-> 166]
      [] style = "modern_workspace" -> [key |-> style, len |-> 186]
      [] style = "personal_office" -> [key |-> style, len |-> 153]
      [] style \in {"street", "working_computer"} -> [key |-> style, len |-> 137]
      [] style = "writing_notes" -> [key |-> style, len |-> 156]
      [] style = "presenting_screen" -> [key |-> style, len |-> 177]
      [] style = "meeting" -> [key |-> style, len |-> 139]
      [] style = "walking_street" -> [key |-> style, len |-> 152]
      [] style = "selfie_transport" -> [key |-> style, len |-> 141]
      [] style = "selfie_office" -> [key |-> style, len |-> 113]
      [] style = "selfie_outdoor" -> [key |-> style, len |-> 125]
      [] style = "selfie_pointing" -> [key |-> style, len |-> 168]
      [] style \in {"coffee_break", "digital_product_context"} ->
            [key |-> style, len |-> 121]
      [] style = "eating" -> [key |-> style, len |-> 114]
      [] style = "software_interface" -> [key |-> style, len |-> 160]
      [] style = "app_showcase" -> [key |-> style, len |-> 153]
      [] style = "product_neutral" -> [key |-> style, len |-> 115]
      [] style = "product_real_context" -> [key |-> style, len |-> 134]
      [] style = "product_used" -> [key |-> style, len |-> 97]
      [] style = "mentor_leader" -> [key |-> style, len |-> 119]
      [] style = "creative_portrait" -> [key |-> style, len |-> 127]
      [] style = "subtle_humor" -> [key |-> style, len |-> 108]
      [] OTHER -> [key |-> "default", len |-> 57]

\* the request is past the input checks of /generate
PromptBuilt == h.endpoint = "generate" /\ h.pc \notin {"off", "start"} /\ GenerateChecks(h.req) = NoRes

\* C11: the /generate prompt builder is total over style keys: for every key of
\* the enumerated set the prompt is that key's base text followed by the fixed
\* fidelity clause, for every other non-empty key it is the default
\* neutral-background text followed by the same clause, and no key makes the
\* construction fail (a request past the input checks always has its prompt)
C11_PromptTotal ==
    /\ h.endpoint = "generate" /\ h.pc \notin {"off", "start"} =>
          \/ PromptBuilt
          \/ h.pc = "done" /\ res = GenerateChecks(h.req)
    /\ PromptBuilt =>
          /\ h.finalPrompt.base = BaseTextOf(h.req.style)
          /\ h.finalPrompt.clause = FidelityClause(h.variant)
          /\ h.finalPrompt.clause # "none"
          /\ res.success => res.prompt = h.finalPrompt

\* a request naming no key of the switch was answered with the default text
\* and the fidelity clause
C11_Witness ==
    /\ h.req.style = "unknown_key" /\ h.pc = "done"
    /\ res.success
    /\ res.prompt.base.key = "default"
    /\ res.prompt.clause = FidelityClause(h.variant)

\* the values of numberOfImages the claim lists as asking for 4 images
ListedAsFour(v) ==
    v.t \in {"undefined", "null", "emptystring"} \/ (v.t = "number" /\ v.n = 0)

\* the number of images the handler asked of the generation client, 0 before
AskedOfClient ==
    IF h.variant = "server"
    THEN (IF seq.pc = "off" THEN 0 ELSE seq.numberOfImages.n \div 10)
    ELSE (IF 1 \in DOMAIN par.grp THEN par.grp[1].safeCount ELSE 0)

\* C24: /generate asks the generation client for
\* clampNumberOfImages(numberOfImages || 4) images: a numberOfImages that is
\* absent, 0, null or an empty string asks for 4 images (not 1), any other
\* value is clamped to 1..4, and the handler never returns more images than
\* that number.
C24_DefaultFour ==
    h.endpoint = "generate" /\ AskedOfClient # 0 =>
        LET v == h.req.numberOfImages
        IN  /\ ListedAsFour(v) => AskedOfClient = 4
            /\ ~ListedAsFour(v) /\ v.t # "false" =>
                  AskedOfClient = clampNumberOfImages(v)
            /\ AskedOfClient \in 1 .. 4
            /\ Len(res.imageUrls) <= AskedOfClient

\* a request with numberOfImages 0 answered with 4 images
C24_Witness ==
    /\ h.endpoint = "generate"
    /\ h.pc = "done"
    /\ h.req.numberOfImages = Num(0)
    /\ res.success = TRUE
    /\ Len(res.imageUrls) = 4

\* the records written by the handlers of server.js
HandlerWritten == {doc \in db : doc.by \in {"storage", "ingest"}}

\* C25: in the object-storage variant (server.js) every record that /generate,
\* /generate-auto or /ingest writes to the images collection has an
\* https://storage.googleapis.com/ url, so GET /gallery/:email for the same
\* email after such requests returns none of those records in images: each is
\* counted in omittedCount.
C25_StoredImagesOmitted ==
    h.variant = "server" =>
        /\ \A doc \in HandlerWritten :
              /\ StartsWith(doc.url, "https://")
              /\ doc.url.owner # "none"
        /\ op.name = "gallery" /\ op.status = 200 =>
              /\ \A doc \in HandlerWritten : \A img \in op.images : img.id # doc.id
              /\ op.omittedCount >=
                    Cardinality({doc \in HandlerWritten : doc.email = op.email})
              /\ op.count + op.omittedCount =
                    Cardinality({doc \in db : doc.email = op.email})

\* the gallery of an email after /generate recorded 2 images for it
C25_Witness ==
    /\ h.variant = "server" /\ h.endpoint = "generate"
    /\ op.name = "gallery" /\ op.status = 200
    /\ Cardinality({doc \in HandlerWritten : doc.email = op.email}) = 2
    /\ op.images = {}
    /\ op.omittedCount >= 2

\* a key the endpoint needs is not configured
MissingKey == ~h.req.googleKey \/ (h.endpoint = "auto" /\ ~h.req.openaiKey)

\* no chat-completion call, no image-generation call, no upload and no
\* document write has been made for the request
NothingIssued ==
    /\ log = <<>>
    /\ seq = SeqIdle /\ par = ParIdle
    /\ bucket = {}
    /\ db = {LegacyDoc}

\* C12: when GOOGLE_API_KEY is not set (either endpoint) or OPENAI_API_KEY is
\* not set (/generate-auto), the response is 500 with a missing-key message and
\* the handler returns before any chat-completion call, image-generation call,
\* upload or document write, whatever the body contains
C12_MissingKey500 ==
    h.pc # "off" /\ MissingKey =>
        /\ NothingIssued
        /\ h.pc \in {"start", "done"}
        /\ h.pc = "done" =>
              /\ res.status = 500 /\ res.success = FALSE
              /\ res.message = IF h.req.googleKey THEN "Missing OPENAI_API_KEY"
                               ELSE "Missing GOOGLE_API_KEY"

\* /generate-auto without OPENAI_API_KEY and a body that would fail validation
C12_Witness ==
    /\ h.endpoint = "auto" /\ h.pc = "done"
    /\ h.req.googleKey /\ ~h.req.openaiKey
    /\ h.req.postText = "missing"
    /\ res.status = 500 /\ res.message = "Missing OPENAI_API_KEY"

\* C14: in /generate-auto, if the chat-completion response carries an error
\* or has no non-empty content, the request fails with 500, success false and
\* a message: no fallback prompt, no image-generation call, nothing persisted
C14_ChatFailure500 ==
    h.endpoint = "auto" /\ h.chat \in {"error", "empty"} =>
        /\ h.pc = "done"
        /\ res.status = 500 /\ res.success = FALSE /\ res.message # "none"
        /\ res.imageUrls = <<>>
        /\ h.finalPrompt = NoPrompt
        /\ log = <<ChatEvent>>
        /\ seq = SeqIdle /\ par = ParIdle
        /\ bucket = {} /\ db = {LegacyDoc}

\* a valid request whose chat completion came back without content
C14_Witness ==
    /\ h.endpoint = "auto" /\ h.chat = "empty" /\ h.pc = "done"
    /\ AutoChecks(h.req) = NoRes
    /\ res.message = "No prompt returned by ChatGPT"

\* the input the claim calls invalid, per endpoint; photos < 0 stands for a
\* photos value that is not an array
InvalidInput ==
    CASE h.endpoint = "generate" ->
            h.req.style = "" \/ h.req.photos \notin 1 .. 10
      [] h.endpoint = "auto" ->
            h.req.postText # "ok" \/ h.req.photos \notin 1 .. 2
      [] h.endpoint = "selection" ->
            h.req.email = "" \/ h.req.imageUrl \in {Null, Str("", 0)}
      [] OTHER -> FALSE

\* C16: with the API keys configured, a request with invalid input is rejected
\* with HTTP 400 before any external call or store write is made, and is never
\* retried (once answered, the request takes no further step): /generate for a
\* missing style, photos not an array or a photo count outside 1..10,
\* /generate-auto for a missing or non-string postText or a photo count
\* outside 1..2, /selection for a missing email or imageUrl
C16_InvalidInput400 ==
    h.pc # "off" /\ h.req.googleKey /\ h.req.openaiKey /\ InvalidInput =>
        /\ NothingIssued
        /\ selections = {}
        /\ h.pc \in {"start", "done"}
        /\ h.pc = "done" =>
              /\ res.status = 400 /\ res.success = FALSE /\ res.message # "none"
              /\ ~ENABLED HandlerNext

\* /generate with 11 photos was answered 400
C16_Witness ==
    /\ h.endpoint = "generate" /\ h.pc = "done"
    /\ h.req.googleKey /\ h.req.photos = 11
    /\ res.status = 400 /\ res.message = "Maximum 10 photos allowed"

\* whether the mocked upstream lets tryGenerate(countsToTry[t]) resolve: every
\* image of the group is generated within its two attempts
AutoYields(t) ==
    \A i \in 1 .. countsToTry[t] : PlanSimple(t, i, 1).ok \/ PlanSimple(t, i, 2).ok

\* the images that group then yields
AutoImages(t) ==
    Slice(Unique([i \in 1 .. countsToTry[t] |->
                     IF PlanSimple(t, i, 1).ok THEN PlanSimple(t, i, 1).img
                     ELSE PlanSimple(t, i, 2).img]),
          countsToTry[t])

\* the request passed the input checks and the prompt was obtained
LadderEntered == h.endpoint = "auto" /\ h.t >= 1

\* the count of the ladder whose images the handler went on with
FirstYielding == IF AutoYields(1) THEN 1 ELSE 2

\* C5 (order): count=1 is attempted only after the count=2 attempt raised or
\* yielded zero images
C5_Order ==
    LadderEntered /\ 2 \in DOMAIN par.grp =>
        \/ par.grp[1].res.status = "raised"
        \/ par.grp[1].res.status = "returned" /\ par.grp[1].res.images = <<>>

\* C5 (winner): the first count that yields an image determines the images
\* of a successful response
C5_Winner ==
    LadderEntered /\ h.pc = "done" /\ res.success =>
        /\ AutoYields(1) \/ AutoYields(2)
        /\ h.finalImages = AutoImages(FirstYielding)
        /\ Len(res.imageUrls) = Len(AutoImages(FirstYielding))

\* C5 (fallback): when count=2 yields nothing and count=1 yields one image,
\* the response succeeds with exactly 1 image
C5_Fallback ==
    LadderEntered /\ h.pc = "done" /\ ~AutoYields(1) /\ AutoYields(2) =>
        res.success /\ Len(res.imageUrls) = 1

\* C5: in /generate-auto the counts are tried in the order 2 then 1, count=1
\* only if count=2 raised or yielded zero images; the first count yielding an
\* image determines the response; count=2 yielding nothing and count=1 yielding
\* one image gives a successful response with exactly 1 image
C5_FallbackLadder == C5_Order /\ C5_Winner /\ C5_Fallback

\* C6: in /generate-auto, if neither count=2 nor count=1 yields an image, the
\* response is HTTP 502 with success false and a message, and nothing is
\* uploaded to object storage or written to the images collection
C6_AutoFails502 ==
    LadderEntered /\ ~AutoYields(1) /\ ~AutoYields(2) =>
        /\ bucket = {}
        /\ db = {LegacyDoc}
        /\ h.pc = "done" =>
              /\ res.status = 502
              /\ res.success = FALSE
              /\ res.imageUrls = <<>>
              /\ res.message = par.grp[2].res.error.kind

\* both counts were attempted by the object-storage variant, both raised, and
\* the 502 went out
C6_Witness ==
    /\ h.variant = "server" /\ h.endpoint = "auto" /\ h.pc = "done"
    /\ h.t = 2
    /\ par.grp[1].res.status = "raised" /\ par.grp[2].res.status = "raised"
    /\ res.status = 502

\* the handler got as far as the save: generation yielded images and, in the
\* object-storage variant, every upload resolved
ReachedSave ==
    /\ Len(h.finalImages) > 0
    /\ h.variant = "server" => Len(h.storedImageUrls) = Len(h.finalImages)

\* C8: whenever generation (and, in server.js, upload) succeeded, /generate
\* and /generate-auto respond success:true with the full list of generated
\* image URLs, whether or not a document write or verification read failed
C8_SaveFailureSwallowed ==
    h.pc = "done" /\ ReachedSave =>
        /\ res.status = 200
        /\ res.success = TRUE
        /\ res.imageUrls = IF h.variant = "server" THEN h.storedImageUrls
                           ELSE h.finalImages

\* a request of the object-storage variant whose two images were uploaded,
\* one add() failed, one verification read failed, and success went out
C8_Witness ==
    /\ h.variant = "server" /\ h.pc = "done"
    /\ Len(h.storedImageUrls) = 2
    /\ h.saveOutcome = <<"addfail", "verifyfail">>
    /\ Cardinality(db) = 2
    /\ res.success = TRUE /\ Len(res.imageUrls) = 2

\* generation yielded images and an upload of the object-storage variant failed
UploadFailed ==
    /\ h.variant = "server" /\ h.pc = "done"
    /\ Len(h.finalImages) > 0
    /\ h.storedImageUrls = <<>>

\* C9: in the object-storage variant a failure while storing a generated
\* image (payload format rejected, file.save or makePublic failing) is
\* swallowed: the request still responds success:true and the generated
\* images reach the client
C9_UploadFailureSwallowed ==
    UploadFailed => res.success = TRUE /\ Len(res.imageUrls) = Len(h.finalImages)

(***************************************************************************)
(* Claims about the account endpoints (SpecAcct).                          *)
(***************************************************************************)
Other(p) == CHOOSE q \in Pids : q # p

\* the request has been answered
Answered(p) == rq[p].pc = "done"

\* C13: when SECRET_KEY is not configured, /login short-circuits with a 500
\* missing-configuration response and never issues a bearer token
C13_NoSecretNoToken ==
    \A p \in DOMAIN rq :
        rq[p].ep = "login" /\ ~rq[p].secret /\ Answered(p)
            /\ rq[p].email # "" /\ rq[p].password # "" =>
                rq[p].res.status = 500 /\ rq[p].res.token = NoToken

\* C15: every response whose body has success:false carries one of the HTTP
\* statuses 400, 404, 500 or 502
C15_FailureStatuses ==
    /\ \A p \in DOMAIN rq :
          Answered(p) /\ ~rq[p].res.success => rq[p].res.status \in {400, 404, 500, 502}
    /\ h.pc = "done" /\ ~res.success => res.status \in {400, 404, 500, 502}

\* two answered signups for the same email
SignupPair(p, q) ==
    /\ p # q
    /\ rq[p].ep = "signup" /\ rq[q].ep = "signup"
    /\ rq[p].email = rq[q].email /\ rq[p].email # ""
    /\ Answered(p) /\ Answered(q)

\* the account document as signup p writes it
WrittenBy(p) ==
    [exists |-> TRUE, password_hash |-> Hash(rq[p].password), password |-> "",
     by |-> p]

\* C17: signup's read-check-then-write is not atomic.  Without interleaving
\* (q starts after p has been answered) a second signup for an existing email
\* responds success:false and leaves the stored account unchanged; two signups
\* for one email both respond success:true only when they interleave, both
\* having read "no such user", and then the account holds what one of them
\* wrote, the other's write being replaced
C17_SignupRace ==
    \A p \in DOMAIN rq : \A q \in DOMAIN rq :
        SignupPair(p, q) =>
            /\ p \in rq[q].after /\ rq[p].res.success =>
                  /\ rq[q].res.success = FALSE
                  /\ users[rq[p].email] = WrittenBy(p)
            /\ rq[q].doc.exists =>
                  rq[q].res.success = FALSE /\ users[rq[q].email].by # q
            /\ rq[p].res.success /\ rq[q].res.success =>
                  /\ p \notin rq[q].after /\ q \notin rq[p].after
                  /\ ~rq[p].doc.exists /\ ~rq[q].doc.exists
                  /\ users[rq[p].email] \in {WrittenBy(p), WrittenBy(q)}

\* both signups for "a" answered success:true and the account holds the
\* password hash of request 1 only: the one of request 2 was replaced
C17_Witness ==
    /\ SignupPair(1, 2)
    /\ rq[1].res.success /\ rq[2].res.success
    /\ rq[1].password = "p1" /\ rq[2].password = "p2"
    /\ users["a"] = WrittenBy(1)

\* no request for the email of delete p is concurrent with it: the other
\* request names another email, or ended before p began, or has not begun
NoConcurrent(p) ==
    \/ rq[Other(p)].email # rq[p].email
    \/ Other(p) \in rq[p].after
    \/ rq[Other(p)].pc = "start"

\* C18: when DELETE /delete/:email runs with no concurrent request for that
\* email and responds success:true, then afterwards the users collection holds
\* no document for the email and the images collection no record of it
C18_DeleteCascades ==
    \A p \in DOMAIN rq :
        rq[p].ep = "delete" /\ Answered(p) /\ rq[p].res.success /\ NoConcurrent(p) =>
            /\ ~users[rq[p].email].exists
            /\ ~\E doc \in db : doc.email = rq[p].email

\* a generate for "a" wrote its image, then the delete for "a" ran and
\* removed it along with the old record, leaving the record of "b"
C18_Witness ==
    /\ rq[1].ep = "delete" /\ rq[1].email = "a"
    /\ Answered(1) /\ rq[1].res.success
    /\ rq[2].ep = "generate" /\ rq[2].email = "a" /\ 2 \in rq[1].after
    /\ Cardinality(rq[1].snap) = 2
    /\ db = {OtherDoc}

\* C19: account deletion is not atomic.  A delete that responded success:true
\* leaves an images record for its email only through a /generate or
\* /generate-auto for that email whose image write landed after the delete's
\* image query; and there is such an interleaving (the witness)
C19_DeleteRace ==
    \A p \in DOMAIN rq :
        /\ rq[p].ep = "delete" /\ Answered(p) /\ rq[p].res.success
        /\ \E doc \in db : doc.email = rq[p].email
        => /\ rq[Other(p)].ep = "generate"
           /\ rq[Other(p)].email = rq[p].email
           /\ Answered(Other(p))
           /\ Other(p) \notin rq[p].qafter

\* the write of the generate landed after the query of the delete and before
\* its response; the delete answered success:true and the record is there
C19_Witness ==
    /\ rq[1].ep = "delete" /\ rq[1].email = "a"
    /\ Answered(1) /\ rq[1].res.success
    /\ rq[2].ep = "generate" /\ rq[2].email = "a" /\ Answered(2)
    /\ 2 \notin rq[1].qafter /\ 1 \notin rq[2].after
    /\ ~users["a"].exists
    /\ \E doc \in db : doc.email = "a" /\ doc.id = 3

\* the condition of the claim on a user document and a submitted password
PasswordMatches(doc, password) ==
    /\ doc.exists
    /\ \/ doc.password_hash # NoHash /\ doc.password_hash.of = password
       \/ doc.password_hash = NoHash /\ doc.password # "" /\ doc.password = password

\* C20: /login responds success:true with a token if and only if a user
\* document exists for the email and either its password_hash matches the
\* submitted password, or it has no password_hash and a legacy password field
\* equal to the submitted password; in every other case no token is issued.
\* (The document is the one the handler read; while no signup or delete runs
\* beside the login it is the document of the store, and the "if" part is for
\* a login whose store read did not fail.)
C20_LoginIff ==
    \A p \in DOMAIN rq :
        rq[p].ep = "login" /\ Answered(p) =>
            /\ rq[p].res.success <=> rq[p].res.token # NoToken
            /\ rq[p].res.success <=> PasswordMatches(rq[p].doc, rq[p].password)
            /\ rq[p].res.token # NoToken => rq[p].res.token.email = rq[p].email
            /\ rq[p].email # "" /\ rq[Other(p)].ep \notin {"signup", "delete"} =>
                  /\ rq[p].res.token # NoToken =>
                        PasswordMatches(users[rq[p].email], rq[p].password)
                  /\ PasswordMatches(users[rq[p].email], rq[p].password)
                        /\ rq[p].res.status # 500 => rq[p].res.token # NoToken

\* a legacy account (plaintext password, no hash) logged in
C20_Witness ==
    /\ rq[1].ep = "login" /\ Answered(1)
    /\ rq[1].doc.password_hash = NoHash /\ rq[1].doc.password = "p1"
    /\ rq[1].res.success /\ rq[1].res.token.email = "a"

(***************************************************************************)
(* Claims about persistence and the gallery (SpecStore).                   *)
(***************************************************************************)
IsHttpUrl(u) == u.ty = "string" /\ u.pfx \in {"http://", "https://"}

RECURSIVE HttpItems(_, _)
HttpItems(items, i) ==
    IF i > Len(items) THEN <<>>
    ELSE (IF IsHttpUrl(items[i]) THEN <<items[i]>> ELSE <<>>) \o HttpItems(items, i + 1)

FirstWritten(email, items, k, id) ==
    {Doc(id + j - 1, OrAnonymous(email),
         IF items[j].len > 800000 THEN [items[j] EXCEPT !.len = 500014] ELSE items[j],
         items[j].len, "inline") : j \in 1 .. k}

\* C27: in the inline-storage variant (part_000) saveImagesToFirestore writes
\* the images in list order and stops at the first failing write: if the write
\* of image k fails, images 1..k-1 remain written, no image after k is written,
\* and no error is raised to the caller (the call completes as an ordinary step).
C27_StopsAtFirstFailure ==
    [][op'.name = "saveInline" =>
          LET items == op'.imageUrls
              tried == Len(op'.adds)
          IN  \/ /\ tried = Len(items)
                 /\ db' = db \cup FirstWritten(op'.email, items, tried, nextId)
              \/ /\ tried \in 1 .. Len(items)
                 /\ db' = db \cup FirstWritten(op'.email, items, tried - 1, nextId)]_vars

\* a save of 2 images whose second write failed: the first one is recorded
C27_Witness ==
    /\ op.name = "saveInline"
    /\ Len(op.imageUrls) = 2
    /\ Len(op.adds) = 2
    /\ Cardinality({doc \in db : doc.by = "inline"}) = 1

\* C28: DELETE /delete/:email changes only the users document of that email
\* and the images records whose email equals it: records of other emails, all
\* records of the selections and posts_analysis collections (those of the
\* deleted email included) and all objects in the storage bucket are unchanged.
C28_DeleteFrame ==
    [][\A p \in DOMAIN rq :
          rq[p].ep = "delete" /\ rq'[p] # rq[p] =>
              /\ \A e \in AcctEmails \ {rq[p].email} : users'[e] = users[e]
              /\ {doc \in db' : doc.email # rq[p].email}
                    = {doc \in db : doc.email # rq[p].email}
              /\ db' \subseteq db
              /\ selections' = selections
              /\ posts' = posts
              /\ bucket' = bucket]_vars

\* an account deleted with its images, the other account's record, its own
\* selection, analysis and bucket object still there
C28_Witness ==
    /\ \E p \in DOMAIN rq :
          rq[p].ep = "delete" /\ rq[p].email = "a" /\ rq[p].pc = "done" /\ rq[p].res.success
    /\ ~users["a"].exists
    /\ ~\E doc \in db : doc.email = "a"
    /\ \E doc \in db : doc.email = "b"
    /\ \E sel \in selections : sel.email = "a"
    /\ \E post \in posts : post.email = "a"
    /\ FilePath("a", 1) \in bucket

(***************************************************************************)
(* Claims about the front end (SpecUi, SpecUiLive).                        *)
(***************************************************************************)
\* C29: every handleGenerate run that sets loading to true eventually sets
\* loading to false and stops its progress timer, whatever the outcome
\* (success, error response, network failure or file-read failure).
C29_LoadingEnds == ui.loading ~> (~ui.loading /\ ui.intervals = 0)

\* C30: after any sequence of handleGenerate, handleSelectImage (with a valid
\* index of the displayed images), handleDeleteAll, handleLogout and
\* handleLogin, selectedImageIndex is null or a valid index into images, so
\* handleSaveSelection never sends an undefined imageUrl.
C30_ValidSelection ==
    /\ ui.selectedImageIndex = NoIndex
          \/ ui.selectedImageIndex \in 0 .. Len(ui.images) - 1
    /\ ui.sent # "undefined"

====
